---- MODULE Spec2Model ----
(***************************************************************************)
(* PSARC archive codec of gd_tools (src/src/psarc.rs): the pack pipeline,  *)
(* the incremental cache and the extract pipeline.                         *)
(*                                                                         *)
(* Byte strings are sequences of pieces.  A piece is a run of n bytes      *)
(* starting at offset a of some source:                                    *)
(*   k = "b"  one literal byte whose value is id (manifest text)           *)
(*   k = "f"  bytes a .. a+n-1 of the file content numbered id             *)
(*   k = "z"  bytes a .. a+n-1 of the zlib stream that compress_block      *)
(*            produces for the byte string src at level id                 *)
(*   k = "h"  bytes a .. a+n-1 of the archive prefix (header, TOC, ZSizes) *)
(* Lengths and offsets are the real numbers of the program (blocks of      *)
(* 65536 bytes); only the values of file bytes are kept symbolic.          *)
(***************************************************************************)
EXTENDS Integers, Sequences, FiniteSets, TLC

\* ------------------------------------------------------------------ bounds
MaxFiles == 2
MaxLines == 3

\* --------------------------------------------------------------- constants
BLOCK_SIZE == 65536
HEADER_SIZE == 32
ENTRY_SIZE == 30

U16 == 65536

\* `x as u32`, and the 40-bit fields written as a high byte and a low 32-bit
\* word and read back as (high << 32) | low.  Every length, index and offset
\* of the model stays below 2^31, where both are exact.
AsU32(x) == x
AsU40(x) == x

Min(x, y) == IF x < y THEN x ELSE y
Max(x, y) == IF x > y THEN x ELSE y

\* usize::saturating_sub
SatSub(x, y) == IF x > y THEN x - y ELSE 0

\* ------------------------------------------------------------ byte strings
Piece(k, id, a, n, src) == [k |-> k, id |-> id, a |-> a, n |-> n, src |-> src]

Lit(b) == Piece("b", b, 0, 1, <<>>)

RECURSIVE BLen(_)
BLen(bs) == IF bs = <<>> THEN 0 ELSE Head(bs).n + BLen(Tail(bs))

\* two adjacent pieces are one run of the same source
Joins(p, q) ==
    /\ p.k = q.k
    /\ p.k # "b"
    /\ p.id = q.id
    /\ p.src = q.src
    /\ p.a + p.n = q.a

RECURSIVE Norm(_)
Norm(bs) ==
    IF Len(bs) < 2 THEN bs
    ELSE IF Joins(bs[1], bs[2])
         THEN Norm(<<[bs[1] EXCEPT !.n = bs[1].n + bs[2].n]>> \o Tail(Tail(bs)))
         ELSE <<bs[1]>> \o Norm(Tail(bs))

\* &bs[..n] (n may not exceed the length: the callers check or clamp)
RECURSIVE Take(_, _)
Take(bs, n) ==
    IF n = 0 \/ bs = <<>> THEN <<>>
    ELSE IF Head(bs).n <= n
         THEN <<Head(bs)>> \o Take(Tail(bs), n - Head(bs).n)
         ELSE <<[Head(bs) EXCEPT !.n = n]>>

\* &bs[n..]
RECURSIVE Drop(_, _)
Drop(bs, n) ==
    IF n = 0 \/ bs = <<>> THEN bs
    ELSE IF Head(bs).n <= n
         THEN Drop(Tail(bs), n - Head(bs).n)
         ELSE <<[Head(bs) EXCEPT !.a = Head(bs).a + n, !.n = Head(bs).n - n]>>
              \o Tail(bs)

\* &bs[o .. o+n]
Slice(bs, o, n) == Take(Drop(bs, o), n)

\* slice::chunks(size)
RECURSIVE Chunks(_, _)
Chunks(bs, size) ==
    IF bs = <<>> THEN <<>>
    ELSE <<Take(bs, size)>> \o Chunks(Drop(bs, size), size)

RECURSIVE Concat(_)
Concat(ss) == IF ss = <<>> THEN <<>> ELSE Head(ss) \o Concat(Tail(ss))

RECURSIVE SumSeq(_)
SumSeq(s) == IF s = <<>> THEN 0 ELSE Head(s) + SumSeq(Tail(s))

RECURSIVE Lits(_)
Lits(s) == IF s = <<>> THEN <<>> ELSE <<Lit(Head(s))>> \o Lits(Tail(s))

\* ------------------------------------------------------------------- paths
\* Internal paths are byte strings: "a", "A" (same name hash as "a") and "c".
\* "b" is a name that no file of the directory carries.
PathA  == <<97>>
PathUA == <<65>>
PathC  == <<99>>
NameB  == <<98>>

Paths == {PathA, PathUA, PathC}

\* the names a line of an on-disk FileList.xml can carry
ManifestNames == {PathA, PathC, NameB}

IsAsciiLower(b) == b >= 97 /\ b <= 122
IsAsciiUpper(b) == b >= 65 /\ b <= 90

to_ascii_uppercase(s) == [i \in DOMAIN s |-> IF IsAsciiLower(s[i]) THEN s[i] - 32 ELSE s[i]]
to_ascii_lowercase(s) == [i \in DOMAIN s |-> IF IsAsciiUpper(s[i]) THEN s[i] + 32 ELSE s[i]]

\* The MD5 digests of the byte strings the model hashes (RFC 1321 values).
\* Any other input gets a value that is no digest of the table and differs
\* for different inputs (MD5 taken as collision free).
Md5Table ==
    <<97>> :> <<12, 193, 117, 185, 192, 241, 182, 168, 49, 195, 153, 226, 105, 119, 38, 97>> @@
    <<65>> :> <<127, 197, 98, 112, 231, 167, 15, 168, 26, 89, 53, 183, 46, 172, 190, 41>> @@
    <<98>> :> <<146, 235, 95, 254, 230, 174, 47, 236, 58, 215, 28, 119, 117, 49, 87, 143>> @@
    <<66>> :> <<157, 94, 214, 120, 254, 87, 188, 202, 97, 1, 64, 149, 122, 250, 181, 113>> @@
    <<99>> :> <<74, 138, 8, 240, 157, 55, 183, 55, 149, 100, 144, 56, 64, 139, 95, 51>> @@
    <<67>> :> <<13, 97, 248, 55, 12, 173, 29, 65, 47, 128, 184, 77, 20, 62, 18, 87>>

Md5(bytes) == IF bytes \in DOMAIN Md5Table THEN Md5Table[bytes] ELSE <<256>> \o bytes

ZeroHash == [i \in 1..16 |-> 0]

\* a hash of the bytes as they are
calculate_md5_exact(path) == Md5(path)

calculate_md5(path) ==
    IF \A i \in DOMAIN path : ~IsAsciiLower(path[i])
    THEN Md5(path)
    ELSE Md5(to_ascii_uppercase(path))

\* Ord for [u8; 16] and for the stand-in values: lexicographic
RECURSIVE HashCmpLess(_, _)
HashCmpLess(h1, h2) ==
    IF h2 = <<>> THEN FALSE
    ELSE IF h1 = <<>> THEN TRUE
    ELSE IF Head(h1) # Head(h2) THEN Head(h1) < Head(h2)
    ELSE HashCmpLess(Tail(h1), Tail(h2))

\* ---------------------------------------------------------------- contents
\* The file contents a directory can hold, by number.
\*   1: empty          2: 6 bytes, incompressible
\*   3: 200 bytes, compressible
\*   4: 65537 bytes, incompressible (one full block and one byte)
Contents == 1..4

\* further contents, used where the block codec alone is explored:
\*   5: 65536 bytes, incompressible (one full block)
\*   6: 65536 bytes, compressible
\*   7: 65538 bytes, incompressible, the last block starts with 0x78, 0x9C
\*   8: 65736 bytes, compressible (one full block and 200 bytes)
\*   9: 6 bytes, incompressible, starting with 0x78, 0x9C
\*   11, 13: 6 bytes of text, 14: 14 bytes of text (see FileText)
BlockContents == 1..9

ContentLen(c) ==
    CASE c = 1 -> 0 [] c = 2 -> 6 [] c = 3 -> 200 [] c = 4 -> 65537
      [] c = 5 -> 65536 [] c = 6 -> 65536 [] c = 7 -> 65538 [] c = 8 -> 65736
      [] c = 14 -> 14
      [] OTHER -> 6

ContentCompressible(c) == c \in {3, 6, 8}

\* offsets of a content at which the two bytes 0x78, 0x9C stand
ContentZlibAt(c) == IF c = 7 THEN {65536} ELSE IF c = 9 THEN {0} ELSE {}

FileBytes(c) == IF ContentLen(c) = 0 THEN <<>> ELSE <<Piece("f", c, 0, ContentLen(c), <<>>)>>

\* what the caller's edit turns a content into, and the content of a new file
EditedContent(c) == (c % 4) + 1
AddedContents == {2}

\* ------------------------------------------------------------- block codec
\* second byte of the zlib header flate2 writes for a compression level
FLevelByte(level) == IF level < 2 THEN 1 ELSE IF level < 7 THEN 156 ELSE 218

\* the value of byte i (0-based) of a piece, -1 when the model keeps it opaque
PieceByte(p, i) ==
    CASE p.k = "b" -> p.id
      [] p.k = "z" -> IF p.a + i = 0 THEN 120
                      ELSE IF p.a + i = 1 THEN FLevelByte(p.id) ELSE -1
      [] p.k = "f" -> IF (p.a + i) \in ContentZlibAt(p.id) THEN 120
                      ELSE IF (p.a + i - 1) \in ContentZlibAt(p.id) THEN 156 ELSE -1
      [] OTHER -> -1

RECURSIVE ByteAt(_, _)
ByteAt(bs, i) ==
    IF bs = <<>> THEN -1
    ELSE IF i < Head(bs).n THEN PieceByte(Head(bs), i)
    ELSE ByteAt(Tail(bs), i - Head(bs).n)

\* every byte of the block belongs to a compressible content
BlockCompressible(chunk) ==
    \A i \in DOMAIN chunk : chunk[i].k = "f" /\ ContentCompressible(chunk[i].id)

\* Length of the zlib stream of a block: 11 bytes of header, end marker and
\* checksum plus the deflate output for a compressible block; a block that
\* does not compress (or level 0) is stored with that overhead on top.
ZlibLen(chunk, level) ==
    IF level > 0 /\ BlockCompressible(chunk)
    THEN 11 + (BLen(chunk) \div 1024)
    ELSE BLen(chunk) + 11

compress_block(data, compression) ==
    <<Piece("z", compression, 0, ZlibLen(Norm(data), compression), Norm(data))>>

\* ZlibDecoder::read_to_end over a slice: the stream must start at the first
\* byte and be complete; bytes after its end are not read.  Anything else is
\* rejected by the decoder.
Inflate(slice) ==
    LET s == Norm(slice) IN
    IF s # <<>> /\ s[1].k = "z" /\ s[1].a = 0
       /\ s[1].n = ZlibLen(s[1].src, s[1].id)
    THEN [ok |-> TRUE, data |-> s[1].src]
    ELSE [ok |-> FALSE, data |-> <<>>]

is_zlib(compressed_data) ==
    /\ BLen(compressed_data) >= 2
    /\ ByteAt(compressed_data, 0) = 120
    /\ ByteAt(compressed_data, 1) \in {156, 218, 1, 94}

\* ----------------------------------------------------------- manifest text
\* Text is a sequence of byte values.
IsWhitespace(b) == b \in {9, 10, 11, 12, 13, 32}

\* U+FEFF in UTF-8
BOM == <<239, 187, 191>>

\* String::from_utf8 succeeds: ASCII, or the three bytes of U+FEFF
RECURSIVE IsUtf8(_)
IsUtf8(t) ==
    IF t = <<>> THEN TRUE
    ELSE IF Head(t) < 128 THEN IsUtf8(Tail(t))
    ELSE /\ Len(t) >= 3
         /\ SubSeq(t, 1, 3) = BOM
         /\ IsUtf8(SubSeq(t, 4, Len(t)))

\* str::split on a set of separator bytes (keeps empty fields)
RECURSIVE SplitOn(_, _, _)
SplitOn(t, seps, cur) ==
    IF t = <<>> THEN <<cur>>
    ELSE IF Head(t) \in seps THEN <<cur>> \o SplitOn(Tail(t), seps, <<>>)
    ELSE SplitOn(Tail(t), seps, Append(cur, Head(t)))

RECURSIVE TrimStart(_)
TrimStart(t) == IF t # <<>> /\ IsWhitespace(Head(t)) THEN TrimStart(Tail(t)) ELSE t

RECURSIVE TrimEnd(_)
TrimEnd(t) ==
    IF t # <<>> /\ IsWhitespace(t[Len(t)]) THEN TrimEnd(SubSeq(t, 1, Len(t) - 1)) ELSE t

\* str::trim
Trim(t) == TrimEnd(TrimStart(t))

\* str::trim_start_matches('\u{feff}')
RECURSIVE TrimStartBom(_)
TrimStartBom(t) ==
    IF Len(t) >= 3 /\ SubSeq(t, 1, 3) = BOM THEN TrimStartBom(SubSeq(t, 4, Len(t))) ELSE t

ReplaceByte(t, from, to) == [i \in DOMAIN t |-> IF t[i] = from THEN to ELSE t[i]]

\* str::lines: split at "\n"; a final empty piece after the last "\n" is no line
StrLines(t) ==
    LET parts == SplitOn(t, {10}, <<>>) IN
    IF parts[Len(parts)] = <<>> THEN SubSeq(parts, 1, Len(parts) - 1) ELSE parts

RECURSIVE NormalizeEach(_)
NormalizeEach(ls) ==
    IF ls = <<>> THEN <<>>
    ELSE LET trimmed == TrimStartBom(Trim(Head(ls))) IN
         IF trimmed = <<>> THEN NormalizeEach(Tail(ls))
         ELSE <<ReplaceByte(trimmed, 92, 47)>> \o NormalizeEach(Tail(ls))

normalize_manifest_lines(text) == NormalizeEach(StrLines(text))

RECURSIVE manifest_bytes_from_paths(_)
manifest_bytes_from_paths(paths) ==
    IF paths = <<>> THEN <<>>
    ELSE IF Len(paths) = 1 THEN paths[1]
    ELSE paths[1] \o <<10>> \o manifest_bytes_from_paths(Tail(paths))

\* ------------------------------------------------------- manifest resolver
\* discovered_files is a sequence of [path, content]; a result is
\* [ok, files, filelist_bytes, missing].
RECURSIVE InsertByHash(_, _)
InsertByHash(sorted, f) ==
    IF sorted = <<>> THEN <<f>>
    ELSE IF HashCmpLess(calculate_md5(f.path), calculate_md5(Head(sorted).path))
         THEN <<f>> \o sorted
         ELSE <<Head(sorted)>> \o InsertByHash(Tail(sorted), f)

\* slice::sort_by (stable) on the name hash
RECURSIVE SortByHash(_)
SortByHash(files) ==
    IF files = <<>> THEN <<>>
    ELSE InsertByHash(SortByHash(SubSeq(files, 1, Len(files) - 1)), files[Len(files)])

PathsOf(files) == [i \in DOMAIN files |-> files[i].path]

\* the loop over manifest_paths: path_map.remove(path) or push to missing
RECURSIVE MatchManifest(_, _, _, _)
MatchManifest(manifest_paths, path_map, ordered, missing) ==
    IF manifest_paths = <<>>
    THEN [path_map |-> path_map, ordered |-> ordered, missing |-> missing]
    ELSE LET path == Head(manifest_paths) IN
         IF \E f \in path_map : f.path = path
         THEN LET f == CHOOSE g \in path_map : g.path = path IN
              MatchManifest(Tail(manifest_paths), path_map \ {f},
                            Append(ordered, f), missing)
         ELSE MatchManifest(Tail(manifest_paths), path_map, ordered,
                            Append(missing, path))

HashSortFallback(discovered_files) ==
    LET files == SortByHash(discovered_files) IN
    [ok |-> TRUE, files |-> files,
     filelist_bytes |-> manifest_bytes_from_paths(PathsOf(files)),
     missing |-> <<>>]

\* a resolver that ignores the on-disk manifest
resolve_file_order_by_hash(discovered_files, manifest_bytes_on_disk) ==
    HashSortFallback(discovered_files)

resolve_file_order(discovered_files, manifest_bytes_on_disk) ==
    IF manifest_bytes_on_disk.present /\ IsUtf8(manifest_bytes_on_disk.bytes)
    THEN LET manifest_paths == normalize_manifest_lines(manifest_bytes_on_disk.bytes) IN
         IF manifest_paths # <<>>
         THEN LET m == MatchManifest(manifest_paths,
                           {discovered_files[i] : i \in DOMAIN discovered_files},
                           <<>>, <<>>) IN
              IF m.missing = <<>> /\ m.path_map = {}
              THEN [ok |-> TRUE, files |-> m.ordered,
                    filelist_bytes |-> manifest_bytes_from_paths(manifest_paths),
                    missing |-> <<>>]
              ELSE IF m.missing # <<>>
              THEN [ok |-> FALSE, files |-> <<>>, filelist_bytes |-> <<>>,
                    missing |-> m.missing]
              ELSE HashSortFallback(discovered_files)
         ELSE HashSortFallback(discovered_files)
    ELSE HashSortFallback(discovered_files)

\* ------------------------------------------------------------ archive file
\* An archive file is [magic, compression, toc_length, file_count,
\* block_size, entries, zsizes, data, flen]: the header fields as stored, the
\* TOC entries and ZSize words that physically follow the header, the data
\* bytes after them, and the length of the file (a truncated file has a flen
\* below the length of these parts).  NoArchive is a path with no file.
NoArchive == [magic |-> "none", compression |-> "none", toc_length |-> 0,
              file_count |-> 0, block_size |-> 0, entries |-> <<>>,
              zsizes |-> <<>>, data |-> <<>>, flen |-> 0]

Exists(ar) == ar.magic # "none"

PrefixLen(ar) == HEADER_SIZE + ENTRY_SIZE * Len(ar.entries) + 2 * Len(ar.zsizes)

FullLen(ar) == PrefixLen(ar) + BLen(ar.data)

\* the memory map of the file
MmapBytes(ar) ==
    Take(<<Piece("h", 0, 0, PrefixLen(ar), <<>>)>> \o ar.data, ar.flen)

\* u16::from_be_bytes([mmap[pos], mmap[pos + 1]]) for word i of the table the
\* header announces; words past the stored table are data bytes (an opaque
\* byte reads as 255)
ZSizeWord(ar, i) ==
    IF ar.file_count = Len(ar.entries) /\ i < Len(ar.zsizes)
    THEN ar.zsizes[i + 1]
    ELSE LET pos == HEADER_SIZE + ENTRY_SIZE * ar.file_count + 2 * i
             hi  == ByteAt(MmapBytes(ar), pos)
             lo  == ByteAt(MmapBytes(ar), pos + 1)
         IN (IF hi < 0 THEN 255 ELSE hi) * 256 + (IF lo < 0 THEN 255 ELSE lo)

\* Header, TOC and ZSize table as load_psarc_cache and extract_psarc_internal
\* read them; check_compression is TRUE for extract, which alone compares the
\* compression tag.  status is "ok", "err" (an io::Error is returned) or
\* "panic" (the worker thread unwinds).
\* a reader that accepts any magic and any compression tag
ParseArchiveAnyTag(ar, check_compression) ==
    LET fail(st, e) == [status |-> st, error |-> e, entries |-> <<>>,
                        zsizes |-> <<>>, block_size |-> 0]
        zsizes_start == HEADER_SIZE + ENTRY_SIZE * ar.file_count
        zsizes_count == (ar.toc_length - HEADER_SIZE - ar.file_count * ENTRY_SIZE) \div 2
    IN
    IF ar.flen < zsizes_start THEN fail("err", "UnexpectedEof")
    ELSE IF ar.toc_length < HEADER_SIZE + ar.file_count * ENTRY_SIZE
         THEN fail("panic", "subtract with overflow")
    ELSE IF zsizes_start + 2 * zsizes_count > ar.flen
         THEN fail("panic", "index out of bounds")
    ELSE [status |-> "ok", error |-> "",
          entries |-> SubSeq(ar.entries, 1, ar.file_count),
          zsizes |-> [i \in 1..zsizes_count |-> ZSizeWord(ar, i - 1)],
          block_size |-> ar.block_size]

ParseArchive(ar, check_compression) ==
    LET fail(st, e) == [status |-> st, error |-> e, entries |-> <<>>,
                        zsizes |-> <<>>, block_size |-> 0]
        zsizes_start == HEADER_SIZE + ENTRY_SIZE * ar.file_count
        zsizes_count == (ar.toc_length - HEADER_SIZE - ar.file_count * ENTRY_SIZE) \div 2
    IN
    IF ar.flen < 4 THEN fail("err", "UnexpectedEof")
    ELSE IF ar.magic # "PSAR" THEN fail("err", "BadMagic")
    ELSE IF ar.flen < 12 THEN fail("err", "UnexpectedEof")
    ELSE IF check_compression /\ ar.compression # "zlib"
         THEN fail("err", "UnsupportedCompression")
    ELSE IF ar.flen < HEADER_SIZE THEN fail("err", "UnexpectedEof")
    ELSE IF ar.flen < zsizes_start THEN fail("err", "UnexpectedEof")
    ELSE IF ar.toc_length < HEADER_SIZE + ar.file_count * ENTRY_SIZE
         THEN fail("panic", "subtract with overflow")
    ELSE IF zsizes_start + 2 * zsizes_count > ar.flen
         THEN fail("panic", "index out of bounds")
    ELSE [status |-> "ok", error |-> "",
          entries |-> SubSeq(ar.entries, 1, ar.file_count),
          zsizes |-> [i \in 1..zsizes_count |-> ZSizeWord(ar, i - 1)],
          block_size |-> ar.block_size]

\* ---------------------------------------------------------- block decoding
\* one iteration of the loop of read_file_data on the block slice
DecodeBlock(compressed_data, compressed_size, zsize, entry, remaining, block_size) ==
    IF compressed_size = entry.uncompressed_size
    THEN [ok |-> TRUE, data |-> compressed_data]
    ELSE IF zsize = 0
    THEN IF remaining < block_size
         THEN [ok |-> TRUE,
               data |-> Take(compressed_data, Min(remaining, BLen(compressed_data)))]
         ELSE [ok |-> TRUE, data |-> compressed_data]
    ELSE LET target_size == IF remaining < block_size \/ compressed_size = block_size
                            THEN remaining ELSE block_size
         IN IF is_zlib(compressed_data)
            THEN LET r == Inflate(compressed_data) IN
                 IF r.ok THEN [ok |-> TRUE, data |-> Take(r.data, Min(target_size, BLen(r.data)))]
                 ELSE [ok |-> FALSE, data |-> <<>>]
            ELSE [ok |-> TRUE,
                  data |-> Take(compressed_data, Min(target_size, BLen(compressed_data)))]

RECURSIVE ReadBlocks(_, _, _, _, _, _, _, _)
ReadBlocks(mmap, mlen, entry, zsizes, block_size, result, cur, remaining) ==
    IF BLen(result) >= entry.uncompressed_size
    THEN [ok |-> TRUE, error |-> "", data |-> Norm(result)]
    ELSE IF cur.z >= Len(zsizes)
    THEN [ok |-> FALSE, error |-> "CorruptZSizeIndex", data |-> <<>>]
    ELSE LET zsize == zsizes[cur.z + 1]
             compressed_size == IF zsize = 0 THEN block_size ELSE zsize
         IN IF cur.off + compressed_size > mlen
            THEN [ok |-> FALSE, error |-> "CorruptBlockBounds", data |-> <<>>]
            ELSE LET d == DecodeBlock(Slice(mmap, cur.off, compressed_size),
                                      compressed_size, zsize, entry, remaining,
                                      block_size)
                 IN IF ~d.ok
                    THEN [ok |-> FALSE, error |-> "InflateFailed", data |-> <<>>]
                    ELSE ReadBlocks(mmap, mlen, entry, zsizes, block_size,
                                    result \o d.data,
                                    [z |-> cur.z + 1, off |-> cur.off + compressed_size],
                                    SatSub(remaining, block_size))

read_file_data(mmap, mlen, entry, zsizes, block_size) ==
    IF entry.offset >= mlen
    THEN [ok |-> FALSE, error |-> "CorruptOffset", data |-> <<>>]
    ELSE ReadBlocks(mmap, mlen, entry, zsizes, block_size, <<>>,
                    [z |-> entry.zsize_index, off |-> entry.offset],
                    entry.uncompressed_size)

\* ------------------------------------------------------- incremental cache
RECURSIVE CopyBlocks(_, _, _, _, _, _, _)
CopyBlocks(mmap, mlen, zsizes, block_size, acc, cur, remaining) ==
    IF remaining = 0
    THEN [ok |-> TRUE, compressed_data |-> acc.data, zsizes |-> acc.zsizes]
    ELSE IF cur.z >= Len(zsizes)
    THEN [ok |-> FALSE, compressed_data |-> <<>>, zsizes |-> <<>>]
    ELSE LET zsize == zsizes[cur.z + 1]
             compressed_size == IF zsize = 0 THEN block_size ELSE zsize
         IN IF cur.off + compressed_size > mlen
            THEN [ok |-> FALSE, compressed_data |-> <<>>, zsizes |-> <<>>]
            ELSE CopyBlocks(mmap, mlen, zsizes, block_size,
                            [data |-> acc.data \o Slice(mmap, cur.off, compressed_size),
                             zsizes |-> Append(acc.zsizes, zsize)],
                            [z |-> cur.z + 1, off |-> cur.off + compressed_size],
                            SatSub(remaining, block_size))

\* CachedFileData, with ok = FALSE for an Err
read_cached_file_data(mmap, mlen, entry, zsizes, block_size) ==
    LET r == CopyBlocks(mmap, mlen, zsizes, block_size,
                        [data |-> <<>>, zsizes |-> <<>>],
                        [z |-> entry.zsize_index, off |-> entry.offset],
                        entry.uncompressed_size)
    IN [ok |-> r.ok, compressed_data |-> Norm(r.compressed_data),
        zsizes |-> r.zsizes, uncompressed_size |-> entry.uncompressed_size]

\* the cache map: a function from name hashes to CachedFileData
EmptyCache == [h \in {} |-> 0]

RECURSIVE BuildCache(_, _, _, _, _, _)
BuildCache(mmap, mlen, entries, zsizes, block_size, cache) ==
    IF entries = <<>> THEN cache
    ELSE LET entry == Head(entries)
             rest  == Tail(entries)
         IN IF entry.name_hash = ZeroHash
            THEN BuildCache(mmap, mlen, rest, zsizes, block_size, cache)
            ELSE LET c == read_cached_file_data(mmap, mlen, entry, zsizes, block_size) IN
                 IF c.ok
                 THEN BuildCache(mmap, mlen, rest, zsizes, block_size,
                          [h \in DOMAIN cache \cup {entry.name_hash} |->
                              IF h = entry.name_hash
                              THEN [compressed_data |-> c.compressed_data,
                                    zsizes |-> c.zsizes,
                                    uncompressed_size |-> c.uncompressed_size]
                              ELSE cache[h]])
                 ELSE BuildCache(mmap, mlen, rest, zsizes, block_size, cache)

\* [status, cache]; File::open of a missing file is an Err
load_psarc_cache(ar) ==
    IF ~Exists(ar) THEN [status |-> "err", cache |-> EmptyCache]
    ELSE LET p == ParseArchive(ar, FALSE) IN
         IF p.status # "ok" THEN [status |-> p.status, cache |-> EmptyCache]
         ELSE [status |-> "ok",
               cache |-> BuildCache(MmapBytes(ar), ar.flen, p.entries, p.zsizes,
                                    p.block_size, EmptyCache)]

\* ----------------------------------------------------------- pack pipeline
Entry(name_hash, zsize_index, uncompressed_size, offset) ==
    [name_hash |-> name_hash, zsize_index |-> zsize_index,
     uncompressed_size |-> uncompressed_size, offset |-> offset]

\* the loop over the compressed chunks of FileList.xml: accumulates the
\* ZSize values and the bytes written to the temporary file
RECURSIVE ManifestBlocks(_, _, _)
ManifestBlocks(chunks, compression, acc) ==
    IF chunks = <<>> THEN acc
    ELSE LET chunk == Head(chunks)
             compressed == compress_block(chunk, compression)
             size == BLen(compressed)
             is_compressed == size < BLen(chunk)
             final_data == IF is_compressed THEN compressed ELSE chunk
             zsize == IF is_compressed THEN size % U16 ELSE 0
         IN ManifestBlocks(Tail(chunks), compression,
                           [zsizes |-> Append(acc.zsizes, zsize),
                            data |-> acc.data \o final_data])

\* a block decision that keeps the zlib stream whatever its length
StoreBlockCompressed(chunk, compression) ==
    LET compressed == compress_block(chunk, compression)
    IN [zsize_val |-> BLen(compressed) % U16, final_data |-> compressed]

\* the body of the loop over the compressed chunks of one recompressed
\* file: [zsize_val, final_data] of one block
StoreBlock(chunk, compression) ==
    LET compressed == compress_block(chunk, compression)
        size == BLen(compressed)
        original_len == BLen(chunk)
        is_worth_compressing == size < original_len
        final_data == IF is_worth_compressing THEN compressed ELSE chunk
        stored_size == BLen(final_data)
        zsize_val == IF ~is_worth_compressing
                     THEN IF original_len = BLOCK_SIZE THEN 0
                          ELSE original_len % U16
                     ELSE stored_size % U16
    IN [zsize_val |-> zsize_val, final_data |-> final_data]

\* the loop over the compressed chunks of one recompressed file
RECURSIVE FileBlocks(_, _, _)
FileBlocks(chunks, compression, acc) ==
    IF chunks = <<>> THEN acc
    ELSE LET b == StoreBlock(Head(chunks), compression)
         IN FileBlocks(Tail(chunks), compression,
                       [zsizes |-> Append(acc.zsizes, b.zsize_val),
                        data |-> acc.data \o b.final_data])

\* a reuse decision that does not look at the modified set
should_recompress_unless_cached(f, packing_mode, modified_set, cache) ==
    \/ packing_mode = "Full"
    \/ calculate_md5(f.path) \notin DOMAIN cache

should_recompress(f, packing_mode, modified_set, cache) ==
    \/ packing_mode = "Full"
    \/ f.path \in modified_set
    \/ calculate_md5(f.path) \notin DOMAIN cache

\* a closure that compresses a file as one chunk, whatever its length
ProcessFileOneChunk(f, file_idx, compression, packing_mode, modified_set, cache) ==
    LET b == FileBlocks(<<FileBytes(f.content)>>, compression,
                        [zsizes |-> <<>>, data |-> <<>>])
    IN [file_idx |-> file_idx, compressed_data |-> b.data, zsizes |-> b.zsizes,
        entry |-> Entry(calculate_md5(f.path), 0, ContentLen(f.content), 0),
        from_cache |-> FALSE]

\* The closure mapped over files: a ProcessedFile.  from_cache is not a field
\* of the program; it records which branch produced the data.
ProcessFile(f, file_idx, compression, packing_mode, modified_set, cache) ==
    LET name_hash == calculate_md5(f.path) IN
    IF ~should_recompress(f, packing_mode, modified_set, cache)
    THEN LET cached == cache[name_hash] IN
         [file_idx |-> file_idx,
          compressed_data |-> cached.compressed_data,
          zsizes |-> cached.zsizes,
          entry |-> Entry(name_hash, 0, cached.uncompressed_size, 0),
          from_cache |-> TRUE]
    ELSE LET len == ContentLen(f.content) IN
         IF len = 0
         THEN [file_idx |-> file_idx, compressed_data |-> <<>>, zsizes |-> <<>>,
               entry |-> Entry(name_hash, 0, 0, 0), from_cache |-> FALSE]
         ELSE LET b == FileBlocks(Chunks(FileBytes(f.content), BLOCK_SIZE),
                                  compression, [zsizes |-> <<>>, data |-> <<>>])
              IN [file_idx |-> file_idx, compressed_data |-> b.data,
                  zsizes |-> b.zsizes,
                  entry |-> Entry(name_hash, 0, len, 0), from_cache |-> FALSE]

ProcessFiles(files, compression, packing_mode, modified_set, cache) ==
    [i \in DOMAIN files |->
        ProcessFile(files[i], i - 1, compression, packing_mode, modified_set, cache)]

\* The parallel map over files with its results taken in the order the
\* tasks complete: completion[k] is the (1-based) index of the file whose
\* task is the k-th to finish.
CollectCompleted(files, completion, compression, packing_mode, modified_set, cache) ==
    [k \in DOMAIN completion |->
        ProcessFile(files[completion[k]], completion[k] - 1, compression,
                    packing_mode, modified_set, cache)]

\* results left in the order of completion
sort_by_completion(processed_files) == processed_files

\* processed_files.sort_by_key(|f| f.file_idx)
sort_by_key(processed_files) ==
    [k \in DOMAIN processed_files |->
        CHOOSE pf \in {processed_files[j] : j \in DOMAIN processed_files} :
            pf.file_idx = k - 1]

Status(current_file, progress, active, error) ==
    [current_file |-> current_file, progress |-> progress,
     active |-> active, error |-> error]

\* progress values are kept as <<numerator, denominator>>
Progress0 == <<0, 1>>
Progress1 == <<1, 1>>

\* a count that takes every cached hash as reused, modified or not
was_reused_if_cached(psarc_path, name_hash, packing_mode, modified_set, cache) ==
    /\ packing_mode = "Incremental"
    /\ name_hash \in DOMAIN cache

was_reused(psarc_path, name_hash, packing_mode, modified_set, cache) ==
    /\ packing_mode = "Incremental"
    /\ psarc_path \notin modified_set
    /\ name_hash \in DOMAIN cache

\* The sequential loop that writes the processed files in order.  st is
\* [entries, zsizes, data, current_offset, recompressed_count, reused_count,
\*  statuses].
RECURSIVE Serialize(_, _, _, _, _, _, _)
Serialize(processed, idx, files, packing_mode, modified_set, cache, st) ==
    IF idx >= Len(processed) THEN st
    ELSE LET pf == processed[idx + 1]
             psarc_path == files[pf.file_idx + 1].path
             name_hash == pf.entry.name_hash
             reused == was_reused(psarc_path, name_hash, packing_mode,
                                  modified_set, cache)
             total == Len(files)
             interval == Min(Max(total \div 100, 1), 10)
             emit == idx % interval = 0 \/ idx = total - 1
             zsize_start_index == AsU32(Len(st.zsizes))
             start_offset == st.current_offset
         IN Serialize(processed, idx + 1, files, packing_mode, modified_set, cache,
              [entries |-> Append(st.entries,
                              Entry(pf.entry.name_hash, zsize_start_index,
                                    pf.entry.uncompressed_size, start_offset)),
               zsizes |-> st.zsizes \o pf.zsizes,
               data |-> st.data \o pf.compressed_data,
               current_offset |-> st.current_offset + BLen(pf.compressed_data),
               recompressed_count |-> st.recompressed_count + (IF reused THEN 0 ELSE 1),
               reused_count |-> st.reused_count + (IF reused THEN 1 ELSE 0),
               statuses |-> IF emit
                            THEN Append(st.statuses,
                                   Status(IF reused THEN "cached" ELSE "compressing",
                                          <<idx, total>>, TRUE, ""))
                            ELSE st.statuses])

\* a layout whose entries keep their offsets relative to the data
WriteArchiveRelative(entries, zsizes, data) ==
    LET toc_length == HEADER_SIZE + Len(entries) * ENTRY_SIZE + Len(zsizes) * 2 IN
    [magic |-> "PSAR", compression |-> "zlib",
     toc_length |-> AsU32(toc_length),
     file_count |-> AsU32(Len(entries)),
     block_size |-> AsU32(BLOCK_SIZE),
     entries |-> entries,
     zsizes |-> zsizes,
     data |-> Norm(data),
     flen |-> toc_length + BLen(data)]

\* header, TOC and ZSize table as written to the output, field widths applied
WriteArchive(entries, zsizes, data) ==
    LET toc_length == HEADER_SIZE + Len(entries) * ENTRY_SIZE + Len(zsizes) * 2 IN
    [magic |-> "PSAR", compression |-> "zlib",
     toc_length |-> AsU32(toc_length),
     file_count |-> AsU32(Len(entries)),
     block_size |-> AsU32(BLOCK_SIZE),
     entries |-> [i \in DOMAIN entries |->
                    LET e == entries[i]
                        absolute_offset == e.offset + toc_length
                    IN Entry(e.name_hash, AsU32(e.zsize_index),
                             AsU40(e.uncompressed_size), AsU40(absolute_offset))],
     zsizes |-> zsizes,
     data |-> Norm(data),
     flen |-> toc_length + BLen(data)]

\* -------------------------------------------------------- extract pipeline
\* String::from_utf8_lossy of decoded bytes: literal bytes keep their value,
\* a run of symbolic bytes becomes one character -1 that is no separator, no
\* whitespace and no letter
RECURSIVE TextOf(_)
TextOf(bs) ==
    IF bs = <<>> THEN <<>>
    ELSE (IF Head(bs).k = "b" THEN <<Head(bs).id>> ELSE <<-1>>) \o TextOf(Tail(bs))

RECURSIVE NonBlank(_)
NonBlank(ls) ==
    IF ls = <<>> THEN <<>>
    ELSE IF Trim(Head(ls)) = <<>> THEN NonBlank(Tail(ls))
    ELSE <<Head(ls)>> \o NonBlank(Tail(ls))

\* the lines of the decoded FileList.xml, trimmed
RECURSIVE TrimEach(_)
TrimEach(ls) == IF ls = <<>> THEN <<>> ELSE <<Trim(Head(ls))>> \o TrimEach(Tail(ls))

ManifestLines(filelist_data) ==
    TrimEach(NonBlank(SplitOn(TextOf(filelist_data), {10, 0}, <<>>)))

MapInsert(m, key, val) ==
    [h \in DOMAIN m \cup {key} |-> IF h = key THEN val ELSE m[h]]

EmptyMap == [h \in {} |-> <<>>]

\* filename_map: three inserts per line, later lines overwrite earlier ones
RECURSIVE BuildFilenameMap(_, _)
BuildFilenameMap(lines, m) ==
    IF lines = <<>> THEN m
    ELSE LET trimmed == Head(lines)
             m1 == MapInsert(m, calculate_md5(trimmed), trimmed)
             m2 == MapInsert(m1, calculate_md5(to_ascii_uppercase(trimmed)), trimmed)
             m3 == MapInsert(m2, calculate_md5(to_ascii_lowercase(trimmed)), trimmed)
         IN BuildFilenameMap(Tail(lines), m3)

\* a file written below output_dir: a manifest name, or the name hash of an
\* entry written as _Unknowns/<hex>.bin
Known(name)   == [unknown |-> FALSE, name |-> name]
Unknown(hash) == [unknown |-> TRUE, name |-> hash]

\* filename.replace('/', MAIN_SEPARATOR) and removal of one leading separator
OutputName(filename) ==
    IF filename # <<>> /\ Head(filename) = 47 THEN Tail(filename) ELSE filename

EntryPath(entry, filename_map) ==
    IF entry.name_hash \in DOMAIN filename_map
    THEN Known(OutputName(filename_map[entry.name_hash]))
    ELSE Unknown(entry.name_hash)

NoFiles == [f \in {} |-> <<>>]

\* The loop over the TOC entries.  acc is [written, log, statuses, error]:
\* the files below output_dir, the order they were written in, the statuses
\* sent, and the error returned ("" while none).
RECURSIVE ExtractEntries(_, _, _, _, _, _, _, _)
ExtractEntries(mmap, mlen, entries, idx, zsizes, block_size, filename_map, acc) ==
    IF idx >= Len(entries) THEN acc
    ELSE LET entry == entries[idx + 1] IN
         IF entry.name_hash = ZeroHash \/ entry.offset = 0
         THEN ExtractEntries(mmap, mlen, entries, idx + 1, zsizes, block_size,
                             filename_map, acc)
         ELSE LET path == EntryPath(entry, filename_map)
                  sts  == Append(acc.statuses,
                                 Status("file", <<idx, Len(entries)>>, TRUE, ""))
                  r    == read_file_data(mmap, mlen, entry, zsizes, block_size)
              IN IF ~r.ok
                 THEN [acc EXCEPT !.statuses = sts, !.error = r.error]
                 ELSE ExtractEntries(mmap, mlen, entries, idx + 1, zsizes,
                          block_size, filename_map,
                          [written |-> [f \in DOMAIN acc.written \cup {path} |->
                                           IF f = path THEN r.data ELSE acc.written[f]],
                           log |-> Append(acc.log, path),
                           statuses |-> sts,
                           error |-> ""])

\* ------------------------------------------------------------ environment
\* compression levels the caller passes (flate2 Compression)
Levels == {6}

PackingModes == {"Full", "Incremental"}

\* sequences of at most n elements of S
SeqsUpTo(S, n) == UNION {[1..k -> S] : k \in 0..n}

\* all orders in which a directory walk can yield the files of S
Perms(S) ==
    {s \in [1..Cardinality(S) -> S] : \A i, j \in DOMAIN s : i # j => s[i] # s[j]}

\* the directories: at most MaxFiles paths, each with a content
Dirs == UNION {[P -> Contents] : P \in {Q \in SUBSET Paths : Cardinality(Q) <= MaxFiles}}

\* FileList.xml as found on disk: [present, bytes]
NoManifest == [present |-> FALSE, bytes |-> <<>>]

\* the lines written one per line, each followed by a blank and "\r\n"
RECURSIVE JoinLinesCrLf(_)
JoinLinesCrLf(ls) ==
    IF ls = <<>> THEN <<>> ELSE Head(ls) \o <<32, 13, 10>> \o JoinLinesCrLf(Tail(ls))

ManifestBlobs ==
    {NoManifest}
    \cup {[present |-> TRUE, bytes |-> manifest_bytes_from_paths(ls)] :
             ls \in SeqsUpTo(ManifestNames, MaxLines)}
    \cup {[present |-> TRUE, bytes |-> <<32>> \o BOM \o JoinLinesCrLf(ls)] :
             ls \in {<<PathA>>, <<PathA, PathC>>, <<PathA, NameB>>}}
    \cup {[present |-> TRUE, bytes |-> <<255, 10>>]}

\* The archive that lies at the output path before the first pack: a Full
\* pack of a directory holding "c" with content 2.
StockArchive ==
    LET m == ManifestBlocks(Chunks(Lits(PathC), BLOCK_SIZE), 6,
                            [zsizes |-> <<>>, data |-> <<>>])
        f == ProcessFile([path |-> PathC, content |-> 2], 0, 6, "Full", {}, [h \in {} |-> 0])
    IN WriteArchive(<<Entry(ZeroHash, 0, Len(PathC), 0),
                      Entry(f.entry.name_hash, Len(m.zsizes), f.entry.uncompressed_size,
                            BLen(m.data))>>,
                    m.zsizes \o f.zsizes, m.data \o f.compressed_data)

\* what can happen to a copy of the output archive kept as prior archive
PriorKinds == {"intact", "absent", "bad_magic", "lzma", "trunc_header",
               "trunc_toc", "small_toc_length", "zsize_past_end"}

Damaged(ar, kind) ==
    CASE kind = "intact"           -> ar
      [] kind = "absent"           -> NoArchive
      [] kind = "bad_magic"        -> [ar EXCEPT !.magic = "XSAR"]
      [] kind = "lzma"             -> [ar EXCEPT !.compression = "lzma"]
      [] kind = "trunc_header"     -> [ar EXCEPT !.flen = 20]
      [] kind = "trunc_toc"        -> [ar EXCEPT !.flen = HEADER_SIZE + ENTRY_SIZE * ar.file_count - 1]
      [] kind = "small_toc_length" -> [ar EXCEPT !.toc_length = HEADER_SIZE]
      [] OTHER                     -> [ar EXCEPT !.toc_length = ar.flen + 2]

\* ------------------------------------------------------------------- state
VARIABLES
    dir,            \* the packed directory: internal path -> content
    manifestDisk,   \* FileList.xml at the root of the directory
    outFile,        \* the file at output_path
    priorFile,      \* the file at a second archive path
    plan,           \* "single": one pack, then extract; "repack": a Full
                    \* pack, an optional edit, an optional copy of the
                    \* output kept as prior archive, a second pack, extract
    stage,          \* how far the caller is in the plan
    changed,        \* paths edited or added since the first pack
    priorKind,      \* how priorFile was made from the first pack's output
    pk,             \* the pack worker (locals of pack_directory_internal)
    packStatus,     \* statuses sent by the pack worker, in order
    ex,             \* the extract worker (locals of extract_psarc_internal)
    extractStatus,  \* statuses sent by the extract worker, in order
    exOut           \* the files below output_dir

vars == <<dir, manifestDisk, outFile, priorFile, plan, stage, changed, priorKind,
          pk, packStatus, ex, extractStatus, exOut>>

PkIdle ==
    [pc |-> "idle", mode |-> "Full", modified |-> {}, existing |-> "none",
     compression |-> 6,
     files |-> <<>>, filelist_bytes |-> <<>>, missing |-> <<>>,
     cache |-> EmptyCache, cache_status |-> "none", prior |-> NoArchive,
     processed |-> <<>>, entries |-> <<>>, zsizes |-> <<>>, data |-> <<>>,
     recompressed |-> 0, reused |-> 0, result |-> "", error |-> "",
     temp_created |-> FALSE, out_before |-> NoArchive, completion |-> <<>>,
     walk |-> <<>>]

ExIdle ==
    [pc |-> "idle", src |-> "none", archive |-> NoArchive, entries |-> <<>>,
     zsizes |-> <<>>, block_size |-> 0, filename_map |-> EmptyMap,
     manifest_read |-> "none", filelist_saved |-> FALSE, dir_created |-> FALSE,
     log |-> <<>>, result |-> "", error |-> ""]

Init ==
    /\ dir \in Dirs
    /\ \/ plan = "single" /\ manifestDisk \in ManifestBlobs
       \/ plan = "repack" /\ manifestDisk = NoManifest
    /\ outFile = StockArchive
    /\ priorFile = NoArchive
    /\ stage = "fresh"
    /\ changed = {}
    /\ priorKind = "none"
    /\ pk = PkIdle
    /\ packStatus = <<>>
    /\ ex = ExIdle
    /\ extractStatus = <<>>
    /\ exOut = NoFiles

PackRunning == pk.pc \in {"scan", "cache", "compress", "serialize", "write", "finish"}
ExtractRunning == ex.pc \in {"header", "files", "finish"}
Quiet == ~PackRunning /\ ~ExtractRunning /\ ex.pc = "idle"

\* ----------------------------------------------------------------- actions
FileAt(path_name) == IF path_name = "output" THEN outFile ELSE priorFile

\* pack_directory: spawn the worker
\* a worker that creates the file at output_path before it scans
StartPackTruncating(mode, modified, existing) ==
    /\ Quiet
    /\ \/ stage = "fresh" /\ stage' = "packing1"
       \/ stage \in {"packed1", "edited", "saved"} /\ plan = "repack" /\ stage' = "packing2"
    /\ pk' = [PkIdle EXCEPT !.pc = "scan", !.mode = mode, !.modified = modified,
                            !.existing = existing, !.out_before = outFile]
    /\ outFile' = [NoArchive EXCEPT !.magic = ""]
    /\ packStatus' = <<>>
    /\ UNCHANGED <<dir, manifestDisk, priorFile, plan, changed, priorKind,
                   ex, extractStatus, exOut>>

StartPack(mode, modified, existing) ==
    /\ Quiet
    /\ \/ stage = "fresh" /\ stage' = "packing1"
       \/ stage \in {"packed1", "edited", "saved"} /\ plan = "repack" /\ stage' = "packing2"
    /\ pk' = [PkIdle EXCEPT !.pc = "scan", !.mode = mode, !.modified = modified,
                            !.existing = existing, !.out_before = outFile]
    /\ packStatus' = <<>>
    /\ UNCHANGED <<dir, manifestDisk, outFile, priorFile, plan, changed, priorKind,
                   ex, extractStatus, exOut>>

\* the configurations the caller starts a pack with: a kept prior archive is
\* the one handed to the next pack
StartPackAny ==
    \/ /\ stage # "saved"
       /\ StartPack("Full", {}, "none")
    \/ /\ stage = "fresh" /\ plan = "single"
       /\ StartPack("Incremental", {}, "output")
    \/ /\ stage \in {"packed1", "edited"}
       /\ StartPack("Incremental", changed, "none")
    \/ /\ stage \in {"packed1", "edited"}
       /\ \E modified \in {changed, {}, DOMAIN dir} :
             StartPack("Incremental", modified, "output")
    \/ /\ stage = "saved"
       /\ \E modified \in {changed, {}, DOMAIN dir} :
             StartPack("Incremental", modified, "prior")

\* Phase 1: the directory walk, then resolve_file_order(...)?
PackScan ==
    /\ pk.pc = "scan"
    /\ \E order \in Perms(DOMAIN dir) :
          LET discovered_files == [i \in DOMAIN order |->
                                     [path |-> order[i], content |-> dir[order[i]]]]
              r == resolve_file_order(discovered_files, manifestDisk)
          IN pk' = IF r.ok
                   THEN [pk EXCEPT !.pc = "cache", !.files = r.files,
                                   !.filelist_bytes = r.filelist_bytes]
                   ELSE [pk EXCEPT !.pc = "finish", !.result = "err",
                                   !.error = "ManifestReferenceMissing",
                                   !.missing = r.missing]
    /\ packStatus' = Append(packStatus, Status("Scanning", Progress0, TRUE, ""))
    /\ UNCHANGED <<dir, manifestDisk, outFile, priorFile, plan, stage, changed,
                   priorKind, ex, extractStatus, exOut>>

StageAfterPack == IF stage = "packing1" THEN "packed1" ELSE "packed2"

\* the cache of the existing archive (Incremental mode)
PackLoadCache ==
    /\ pk.pc = "cache"
    /\ IF pk.mode = "Incremental" /\ pk.existing # "none" /\ Exists(FileAt(pk.existing))
       THEN LET ar == FileAt(pk.existing)
                lc == load_psarc_cache(ar)
            IN /\ packStatus' = Append(packStatus,
                                       Status("Loading cache", Progress0, TRUE, ""))
               /\ IF lc.status = "panic"
                  THEN /\ pk' = [pk EXCEPT !.pc = "panicked", !.cache_status = "panic"]
                       /\ stage' = StageAfterPack
                  ELSE /\ pk' = [pk EXCEPT !.pc = "compress", !.cache = lc.cache,
                                           !.cache_status = lc.status, !.prior = ar]
                       /\ stage' = stage
       ELSE /\ pk' = [pk EXCEPT !.pc = "compress", !.cache = EmptyCache,
                                !.cache_status = "none"]
            /\ packStatus' = packStatus
            /\ stage' = stage
    /\ UNCHANGED <<dir, manifestDisk, outFile, priorFile, plan, changed, priorKind,
                   ex, extractStatus, exOut>>

\* Phase 2: temporary file, FileList.xml and the parallel map over the files,
\* whose tasks finish in any order
PackCompress ==
    /\ pk.pc = "compress"
    /\ \E completion \in Perms(DOMAIN pk.files) :
          LET m == ManifestBlocks(Chunks(Lits(pk.filelist_bytes), BLOCK_SIZE),
                                  pk.compression, [zsizes |-> <<>>, data |-> <<>>])
              processed == CollectCompleted(pk.files, completion, pk.compression,
                                            pk.mode, pk.modified, pk.cache)
          IN pk' = [pk EXCEPT !.pc = "serialize", !.temp_created = TRUE,
                              !.completion = completion,
                              !.processed = processed,
                              !.entries = <<Entry(ZeroHash, 0, Len(pk.filelist_bytes), 0)>>,
                              !.zsizes = m.zsizes,
                              !.data = Norm(m.data)]
    /\ UNCHANGED <<dir, manifestDisk, outFile, priorFile, plan, stage, changed,
                   priorKind, packStatus, ex, extractStatus, exOut>>

\* Phase 2, continued: the results sorted by file index and the sequential
\* write loop
PackSerialize ==
    /\ pk.pc = "serialize"
    /\ LET processed == sort_by_key(pk.processed)
           st == Serialize(processed, 0, pk.files, pk.mode, pk.modified, pk.cache,
                           [entries |-> pk.entries,
                            zsizes |-> pk.zsizes,
                            data |-> pk.data,
                            current_offset |-> BLen(pk.data),
                            recompressed_count |-> 0,
                            reused_count |-> 0,
                            statuses |-> <<>>])
       IN /\ pk' = [pk EXCEPT !.pc = "write",
                              !.processed = processed,
                              !.entries = st.entries, !.zsizes = st.zsizes,
                              !.data = Norm(st.data),
                              !.recompressed = st.recompressed_count,
                              !.reused = st.reused_count]
          /\ packStatus' = packStatus \o st.statuses
                              \o <<Status("Writing", Progress1, TRUE, "")>>
    /\ UNCHANGED <<dir, manifestDisk, outFile, priorFile, plan, stage, changed,
                   priorKind, ex, extractStatus, exOut>>

\* Phase 3: File::create(output_path) and the final layout
PackWrite ==
    /\ pk.pc = "write"
    /\ outFile' = WriteArchive(pk.entries, pk.zsizes, pk.data)
    /\ pk' = [pk EXCEPT !.pc = "finish", !.result = "ok", !.completion = <<>>]
    /\ UNCHANGED <<dir, manifestDisk, priorFile, plan, stage, changed, priorKind,
                   packStatus, ex, extractStatus, exOut>>

\* pack_directory: the terminal status for the result of the worker
PackFinish ==
    /\ pk.pc = "finish"
    /\ IF pk.result = "ok"
       THEN /\ pk' = [pk EXCEPT !.pc = "done"]
            /\ packStatus' = Append(packStatus, Status("Done", Progress1, FALSE, ""))
       ELSE /\ pk' = [pk EXCEPT !.pc = "failed"]
            /\ packStatus' = Append(packStatus, Status("Error", Progress0, FALSE, pk.error))
    /\ stage' = StageAfterPack
    /\ UNCHANGED <<dir, manifestDisk, outFile, priorFile, plan, changed, priorKind,
                   ex, extractStatus, exOut>>

\* the caller rewrites a file of the directory
ModifyFile(p, c) ==
    /\ Quiet
    /\ stage = "packed1"
    /\ plan = "repack"
    /\ p \in DOMAIN dir
    /\ c = EditedContent(dir[p])
    /\ dir' = [dir EXCEPT ![p] = c]
    /\ changed' = changed \cup {p}
    /\ stage' = "edited"
    /\ UNCHANGED <<manifestDisk, outFile, priorFile, plan, priorKind, pk, packStatus,
                   ex, extractStatus, exOut>>

\* the caller adds a file to the directory
AddFile(p, c) ==
    /\ Quiet
    /\ stage = "packed1"
    /\ plan = "repack"
    /\ p \notin DOMAIN dir
    /\ c \in AddedContents
    /\ Cardinality(DOMAIN dir) < MaxFiles
    /\ dir' = [q \in DOMAIN dir \cup {p} |-> IF q = p THEN c ELSE dir[q]]
    /\ changed' = changed \cup {p}
    /\ stage' = "edited"
    /\ UNCHANGED <<manifestDisk, outFile, priorFile, plan, priorKind, pk, packStatus,
                   ex, extractStatus, exOut>>

\* the caller keeps a copy of the output archive, possibly damaged, as the
\* prior archive of the next pack
SavePrior(kind) ==
    /\ Quiet
    /\ stage \in {"packed1", "edited"}
    /\ plan = "repack"
    /\ priorFile' = Damaged(outFile, kind)
    /\ priorKind' = kind
    /\ stage' = "saved"
    /\ UNCHANGED <<dir, manifestDisk, outFile, plan, changed, pk, packStatus, ex,
                   extractStatus, exOut>>

\* extract_psarc: spawn the worker
StartExtract(src) ==
    /\ Quiet
    /\ \/ stage \in {"packed1", "packed2"} /\ src = "output"
       \/ stage = "saved" /\ src = "prior"
    /\ stage' = "extracting"
    /\ ex' = [ExIdle EXCEPT !.pc = "header", !.src = src, !.archive = FileAt(src)]
    /\ extractStatus' = <<>>
    /\ exOut' = NoFiles
    /\ UNCHANGED <<dir, manifestDisk, outFile, priorFile, plan, changed, priorKind,
                   pk, packStatus>>

\* File::open, the memory map, header, TOC entries and ZSize table
ExtractHeader ==
    /\ ex.pc = "header"
    /\ extractStatus' = Append(extractStatus, Status("Reading PSARC file", Progress0, TRUE, ""))
    /\ IF ~Exists(ex.archive)
       THEN ex' = [ex EXCEPT !.pc = "finish", !.result = "err", !.error = "Io"]
       ELSE LET p == ParseArchive(ex.archive, TRUE) IN
            ex' = CASE p.status = "ok" ->
                         [ex EXCEPT !.pc = "files", !.entries = p.entries,
                                    !.zsizes = p.zsizes, !.block_size = p.block_size]
                    [] p.status = "err" ->
                         [ex EXCEPT !.pc = "finish", !.result = "err", !.error = p.error]
                    [] OTHER ->
                         [ex EXCEPT !.pc = "panicked", !.error = p.error]
    /\ stage' = IF ex'.pc = "panicked" THEN "end" ELSE stage
    /\ UNCHANGED <<dir, manifestDisk, outFile, priorFile, plan, changed, priorKind,
                   pk, packStatus, exOut>>

\* Step 1 of extract_psarc_internal: FileList.xml from the first entry and
\* the filename map; [manifest_read, filename_map]
ReadManifest(archive, entries, zsizes, block_size) ==
    IF entries # <<>> /\ entries[1].name_hash = ZeroHash /\ entries[1].offset # 0
    THEN LET r == read_file_data(MmapBytes(archive), archive.flen, entries[1],
                                 zsizes, block_size)
         IN IF r.ok
            THEN [manifest_read |-> "ok",
                  filename_map |-> BuildFilenameMap(ManifestLines(r.data), EmptyMap)]
            ELSE [manifest_read |-> r.error, filename_map |-> EmptyMap]
    ELSE [manifest_read |-> "none", filename_map |-> EmptyMap]

\* create_dir_all(output_dir), FileList.xml, the loop over the entries and
\* the final status of extract_psarc_internal
ExtractFiles ==
    /\ ex.pc = "files"
    /\ LET m == ReadManifest(ex.archive, ex.entries, ex.zsizes, ex.block_size)
           acc == ExtractEntries(MmapBytes(ex.archive), ex.archive.flen, ex.entries, 0,
                                 ex.zsizes, ex.block_size, m.filename_map,
                                 [written |-> NoFiles, log |-> <<>>,
                                  statuses |-> <<>>, error |-> ""])
           sts == Append(extractStatus,
                         Status("Reading FileList.xml", Progress0, TRUE, ""))
                  \o acc.statuses
       IN /\ exOut' = acc.written
          /\ IF acc.error = ""
             THEN /\ ex' = [ex EXCEPT !.pc = "finish", !.result = "ok", !.log = acc.log,
                                      !.dir_created = TRUE,
                                      !.manifest_read = m.manifest_read,
                                      !.filelist_saved = (m.manifest_read = "ok"),
                                      !.filename_map = m.filename_map]
                  /\ extractStatus' = Append(sts, Status("Done", Progress1, FALSE, ""))
             ELSE /\ ex' = [ex EXCEPT !.pc = "finish", !.result = "err",
                                      !.error = acc.error, !.log = acc.log,
                                      !.dir_created = TRUE,
                                      !.manifest_read = m.manifest_read,
                                      !.filelist_saved = (m.manifest_read = "ok"),
                                      !.filename_map = m.filename_map]
                  /\ extractStatus' = sts
    /\ UNCHANGED <<dir, manifestDisk, outFile, priorFile, plan, stage, changed,
                   priorKind, pk, packStatus>>

\* extract_psarc: the terminal status for the result of the worker
ExtractFinish ==
    /\ ex.pc = "finish"
    /\ IF ex.result = "ok"
       THEN /\ ex' = [ex EXCEPT !.pc = "done"]
            /\ extractStatus' = Append(extractStatus, Status("Done", Progress1, FALSE, ""))
       ELSE /\ ex' = [ex EXCEPT !.pc = "failed"]
            /\ extractStatus' = Append(extractStatus,
                                       Status("Error", Progress0, FALSE, ex.error))
    /\ stage' = "end"
    /\ UNCHANGED <<dir, manifestDisk, outFile, priorFile, plan, changed, priorKind,
                   pk, packStatus, exOut>>

Next ==
    \/ StartPackAny
    \/ PackScan
    \/ PackLoadCache
    \/ PackCompress
    \/ PackSerialize
    \/ PackWrite
    \/ PackFinish
    \/ \E p \in Paths, c \in Contents : ModifyFile(p, c)
    \/ \E p \in Paths, c \in Contents : AddFile(p, c)
    \/ \E kind \in PriorKinds : SavePrior(kind)
    \/ \E src \in {"output", "prior"} : StartExtract(src)
    \/ ExtractHeader
    \/ ExtractFiles
    \/ ExtractFinish

Spec == Init /\ [][Next]_vars

\* ------------------------------------------------------------------ claims
\* the files an extraction of a pack of directory d has to write
ExpectedFiles(d) ==
    [f \in {Known(p) : p \in DOMAIN d} |-> FileBytes(d[f.name])]

ExtractEnded == ex.pc \in {"done", "failed", "panicked"}

\* the extract worker has read the archive that the last pack wrote
ExtractedLastPack == ExtractEnded /\ ex.src = "output" /\ pk.pc = "done"

\* C1: a Full pack of a directory followed by extract of the produced
\* archive ends without error and writes exactly the files of the directory,
\* each under its internal path with its bytes.
RoundTripFull ==
    (ExtractedLastPack /\ pk.mode = "Full")
        => (ex.pc = "done" /\ exOut = ExpectedFiles(dir))

\* the second pack ran with the first pack's archive as prior archive and
\* with exactly the edited paths as modified set
IncrementalOverFull ==
    /\ plan = "repack"
    /\ pk.mode = "Incremental"
    /\ pk.modified = changed
    /\ \/ pk.existing = "output"
       \/ pk.existing = "prior" /\ priorKind = "intact"

\* C2: an Incremental pack of the edited directory over the Full pack of the
\* original one, with the edited paths as modified set, followed by extract,
\* yields exactly the files of the edited directory (prior archive at the
\* output path or at another path).
IncrementalInvariance ==
    (ExtractedLastPack /\ IncrementalOverFull)
        => (ex.pc = "done" /\ exOut = ExpectedFiles(dir))

\* the pack worker has ended, one way or the other
PackEnded == pk.pc \in {"done", "failed", "panicked"}

\* the pack worker is past the compression of the files
PackCompressed == pk.pc \in {"write", "finish", "done"} /\ pk.result # "err"

\* the pack worker has written the output archive
PackWritten == pk.pc \in {"finish", "done"} /\ pk.result = "ok"

RECURSIVE SeqToSet(_)
SeqToSet(s) == IF s = <<>> THEN {} ELSE {Head(s)} \cup SeqToSet(Tail(s))

\* the normalized lines of the on-disk manifest
DiskLines == IF manifestDisk.present /\ IsUtf8(manifestDisk.bytes)
             THEN normalize_manifest_lines(manifestDisk.bytes) ELSE <<>>

\* the on-disk manifest names every file of the directory exactly once
ManifestListsAll ==
    /\ manifestDisk.present
    /\ IsUtf8(manifestDisk.bytes)
    /\ Len(DiskLines) = Cardinality(DOMAIN dir)
    /\ SeqToSet(DiskLines) = DOMAIN dir

\* the first n bytes of the data region hold text, raw or as one zlib stream
StoresText(data, text) ==
    \/ text = <<>>
    \/ Norm(Take(data, Len(text))) = Lits(text)
    \/ data # <<>> /\ data[1].k = "z" /\ data[1].a = 0 /\ data[1].src = Lits(text)

\* C3: when the on-disk FileList.xml names every other file exactly once,
\* the TOC entries 1..N of the written archive follow the manifest lines
\* (entry i+1 carries hash(line i)) and entry 0 stores the lines joined by
\* "\n" without a trailing newline.
ManifestOrdering ==
    (PackWritten /\ ManifestListsAll)
        => /\ Len(outFile.entries) = Len(DiskLines) + 1
           /\ \A i \in DOMAIN DiskLines :
                 outFile.entries[i + 1].name_hash = calculate_md5(DiskLines[i])
           /\ outFile.entries[1].uncompressed_size
                 = Len(manifest_bytes_from_paths(DiskLines))
           /\ StoresText(outFile.data, manifest_bytes_from_paths(DiskLines))

\* a pack has followed a two-line manifest that lists "a" before "c", the
\* reverse of their hash order
ManifestOrderingWitness ==
    /\ PackWritten
    /\ ManifestListsAll
    /\ DiskLines = <<PathA, PathC>>
    /\ manifestDisk.bytes # manifest_bytes_from_paths(DiskLines)

\* the last status a worker has sent
LastStatus(statuses) == statuses[Len(statuses)]

\* the paths of the directory that hold an empty file
EmptyPaths == {p \in DOMAIN dir : ContentLen(dir[p]) = 0}

\* no other path of the directory has the name hash of p
HashUnique(p) ==
    \A q \in DOMAIN dir : calculate_md5(q) = calculate_md5(p) => q = p

\* C4: a Full pack of a directory with an empty file gives that file a TOC
\* entry of uncompressed_size 0 and no ZSize entries, and extract of the
\* archive ends without error and writes the file with zero bytes, also when
\* the empty file is the last or the only entry.
ZeroLengthFile ==
    (ExtractedLastPack /\ pk.mode = "Full" /\ EmptyPaths # {})
        => /\ \A i \in DOMAIN pk.files :
                 pk.files[i].path \in EmptyPaths
                    => /\ outFile.entries[i + 1].uncompressed_size = 0
                       /\ pk.processed[i].zsizes = <<>>
           /\ ex.pc = "done"
           /\ \A p \in EmptyPaths :
                 HashUnique(p)
                    => \E f \in DOMAIN exOut :
                          /\ f \in {Known(p), Unknown(calculate_md5(p))}
                          /\ exOut[f] = <<>>

\* the files of the pack that took the cache branch
FromCache == {i \in DOMAIN pk.processed : pk.processed[i].from_cache}

\* what the recompression branch produces for file i of the pack
Recompressed(i) ==
    ProcessFile(pk.files[i], i - 1, pk.compression, "Full", {}, EmptyCache)

\* the second pack ran over the first pack's archive after one file of the
\* first pack's directory was rewritten
OneFileModified ==
    /\ IncrementalOverFull
    /\ Cardinality(changed) = 1
    /\ Len(pk.files) = Len(pk.prior.entries) - 1

\* C5: a file is taken from the cache exactly when the mode is Incremental,
\* its path is not in the modified set and the cache holds its name hash;
\* every other file is recompressed from disk; reused_count and
\* recompressed_count are the numbers of files of the two kinds and add up
\* to the number of non-manifest entries; Full mode reuses nothing; one
\* modified file gives reused = len(D) - 1 and recompressed = 1.
ReuseDecision ==
    PackCompressed
        => /\ DOMAIN pk.processed = DOMAIN pk.files
           /\ \A i \in DOMAIN pk.files :
                 /\ pk.processed[i].from_cache
                       <=> /\ pk.mode = "Incremental"
                           /\ pk.files[i].path \notin pk.modified
                           /\ calculate_md5(pk.files[i].path) \in DOMAIN pk.cache
                 /\ ~pk.processed[i].from_cache
                       => /\ pk.processed[i].compressed_data
                                = Recompressed(i).compressed_data
                          /\ pk.processed[i].zsizes = Recompressed(i).zsizes
                          /\ pk.processed[i].entry.uncompressed_size
                                = ContentLen(pk.files[i].content)
                          /\ stage \in {"packing1", "packing2"}
                                => pk.files[i].content = dir[pk.files[i].path]
           /\ pk.reused = Cardinality(FromCache)
           /\ pk.recompressed = Cardinality(DOMAIN pk.files \ FromCache)
           /\ pk.recompressed + pk.reused = Len(pk.entries) - 1
           /\ pk.mode = "Full" => pk.reused = 0
           /\ OneFileModified
                 => pk.reused = Len(pk.files) - 1 /\ pk.recompressed = 1

\* an Incremental pack over the first pack's archive reused one file and
\* recompressed the one modified file
ReuseDecisionWitness ==
    /\ PackCompressed
    /\ OneFileModified
    /\ Len(pk.files) = 2
    /\ pk.reused = 1
    /\ pk.recompressed = 1

\* the number of blocks of a file of n bytes
NumBlocks(n, block_size) == (n + block_size - 1) \div block_size

\* the slice of the ZSize table of archive ar that belongs to entry e
EntryZSizes(ar, e) ==
    SubSeq(ar.zsizes, e.zsize_index + 1,
           e.zsize_index + NumBlocks(e.uncompressed_size, ar.block_size))

\* the on-disk lengths of the blocks a ZSize slice describes
BlockLens(zs, block_size) ==
    [i \in DOMAIN zs |-> IF zs[i] = 0 THEN block_size ELSE zs[i]]

\* the bytes of the blocks of entry e in the file of archive ar
EntryRegion(ar, e) ==
    Norm(Slice(MmapBytes(ar), e.offset,
               SumSeq(BlockLens(EntryZSizes(ar, e), ar.block_size))))

\* C6: for every file reused from the cache in an Incremental pack, the
\* data region of its entry in the new archive is the concatenation of its
\* on-disk blocks in the prior archive, its ZSize sequence is its slice of
\* the prior ZSize table and its uncompressed_size is the prior entry's.
\* The entries of the prior archive carry no path: the entry of a file is
\* one of those with its name hash, so the statement is made for each.
VerbatimSplice ==
    (PackWritten /\ pk.mode = "Incremental")
        => \A i \in FromCache :
              LET e == outFile.entries[i + 1] IN
              \A j \in DOMAIN pk.prior.entries :
                 LET o == pk.prior.entries[j] IN
                 (j > 1 /\ o.name_hash = e.name_hash)
                    => /\ EntryRegion(outFile, e) = EntryRegion(pk.prior, o)
                       /\ EntryZSizes(outFile, e) = EntryZSizes(pk.prior, o)
                       /\ e.uncompressed_size = o.uncompressed_size

RECURSIVE SumBlocks(_)
SumBlocks(S) ==
    IF S = {} THEN 0
    ELSE LET p == CHOOSE q \in S : TRUE
         IN NumBlocks(ContentLen(dir[p]), BLOCK_SIZE) + SumBlocks(S \ {p})

\* the second pack, over the first pack's archive, has succeeded
RepackDone == pk.pc = "done" /\ IncrementalOverFull

\* C7 as stated: the reused number of an Incremental pack over the Full
\* pack equals the total number of 64 KiB blocks of the unmodified files.
ReusedBlockCount ==
    RepackDone => pk.reused = SumBlocks(DOMAIN dir \ pk.modified)

\* C7, amended: the reused number of an Incremental pack over the Full pack
\* equals the number of unmodified files, whatever their number of blocks.
ReusedFileCount ==
    RepackDone => pk.reused = Cardinality(DOMAIN dir \ pk.modified)

\* an Incremental pack has reused an unmodified file of two blocks
ReusedFileCountWitness ==
    /\ RepackDone
    /\ pk.reused >= 1
    /\ \E p \in DOMAIN dir \ pk.modified :
          NumBlocks(ContentLen(dir[p]), BLOCK_SIZE) = 2

\* the extract worker is past the header of its archive
HeaderRead == ex.pc \notin {"idle", "header"}

\* extract has failed with error e before reading an entry, creating the
\* output directory or writing a file, and its terminal status carries e
Rejected(e) ==
    /\ ex.pc \in {"finish", "failed"}
    /\ ex.result = "err"
    /\ ex.error = e
    /\ ex.entries = <<>>
    /\ ~ex.dir_created
    /\ ~ex.filelist_saved
    /\ exOut = NoFiles
    /\ \A i \in DOMAIN extractStatus : extractStatus[i].current_file # "Done"
    /\ ex.pc = "failed"
          => /\ ~LastStatus(extractStatus).active
             /\ LastStatus(extractStatus).error = e

\* C8: extract of an archive whose first four bytes are not "PSAR" fails
\* with the bad-magic error, extract of an archive whose compression tag is
\* not "zlib" fails with the unsupported-compression error; both before any
\* TOC entry is read, before the output directory is created and before any
\* file is written, and the terminal status carries the error.
HeaderRejection ==
    /\ (HeaderRead /\ ex.archive.flen >= 4 /\ ex.archive.magic # "PSAR")
          => Rejected("BadMagic")
    /\ (HeaderRead /\ ex.archive.flen >= 12 /\ ex.archive.magic = "PSAR"
                   /\ ex.archive.compression # "zlib")
          => Rejected("UnsupportedCompression")

\* extract has ended on an archive whose compression tag reads "lzma"
HeaderRejectionWitness ==
    /\ ex.pc = "failed"
    /\ ex.archive.magic = "PSAR"
    /\ ex.archive.compression = "lzma"
    /\ Len(ex.archive.entries) >= 2

RECURSIVE NotDiscovered(_)
NotDiscovered(ls) ==
    IF ls = <<>> THEN <<>>
    ELSE (IF Head(ls) \in DOMAIN dir THEN <<>> ELSE <<Head(ls)>>)
         \o NotDiscovered(Tail(ls))

\* the manifest lines that name no discovered file
MissingLines == NotDiscovered(DiskLines)

\* C9: when the on-disk manifest names a path that is not among the
\* discovered files, pack fails with an error that lists exactly the missing
\* paths, before the temporary file is created and with the file at the
\* output path left as it was.
MissingManifestReference ==
    (PackEnded /\ MissingLines # <<>>)
        => /\ pk.pc = "failed"
           /\ pk.error = "ManifestReferenceMissing"
           /\ pk.missing = MissingLines
           /\ ~pk.temp_created
           /\ outFile = pk.out_before
           /\ ~LastStatus(packStatus).active
           /\ LastStatus(packStatus).error = pk.error

\* the prior archive handed to an Incremental pack is absent or cannot be
\* loaded as a cache
PriorUnusable ==
    \/ pk.existing = "none"
    \/ /\ pk.existing = "prior"
       /\ priorKind \in {"absent", "bad_magic", "trunc_header", "trunc_toc",
                         "small_toc_length", "zsize_past_end"}

\* C10: an Incremental pack whose prior archive is absent or cannot be
\* loaded as a cache does not fail: it recompresses every file, reuses none
\* and ends with a successful terminal status.
IncrementalFallback ==
    (PackEnded /\ pk.mode = "Incremental" /\ PriorUnusable)
        => /\ pk.pc = "done"
           /\ pk.reused = 0
           /\ pk.recompressed = Len(pk.files)
           /\ ~LastStatus(packStatus).active
           /\ LastStatus(packStatus).error = ""

\* the errors block decoding raises
DecodeErrors ==
    {"CorruptOffset", "CorruptZSizeIndex", "CorruptBlockBounds", "InflateFailed"}

\* C11: every hard error raised during pack or extract stops the operation
\* and reaches the caller as a terminal status with active = FALSE and the
\* error set; none is swallowed so that the operation ends with a success
\* status, an error while decoding entry 0 (the manifest) included.
ErrorsSurfaced ==
    /\ (ExtractEnded /\ ex.manifest_read \in DecodeErrors)
          => /\ ex.pc = "failed"
             /\ ~LastStatus(extractStatus).active
             /\ LastStatus(extractStatus).error # ""
    /\ (ex.pc = "failed")
          => /\ ~LastStatus(extractStatus).active
             /\ LastStatus(extractStatus).error = ex.error
    /\ (pk.pc = "failed")
          => /\ ~LastStatus(packStatus).active
             /\ LastStatus(packStatus).error = pk.error

\* ------------------------------------------------- block codec exploration
\* A second specification for the block codec: one Full pack of a directory
\* without FileList.xml whose files range over BlockContents, then extract
\* of the produced archive.
BlockPaths == {PathA, PathC}

BlockDirs ==
    UNION {[P -> BlockContents] :
              P \in {Q \in SUBSET BlockPaths : Cardinality(Q) <= MaxFiles}}

BlockInit ==
    /\ dir \in BlockDirs
    /\ plan = "single"
    /\ manifestDisk = NoManifest
    /\ outFile = StockArchive
    /\ priorFile = NoArchive
    /\ stage = "fresh"
    /\ changed = {}
    /\ priorKind = "none"
    /\ pk = PkIdle
    /\ packStatus = <<>>
    /\ ex = ExIdle
    /\ extractStatus = <<>>
    /\ exOut = NoFiles

BlockNext ==
    \/ StartPack("Full", {}, "none")
    \/ PackScan
    \/ PackLoadCache
    \/ PackCompress
    \/ PackSerialize
    \/ PackWrite
    \/ PackFinish
    \/ StartExtract("output")
    \/ ExtractHeader
    \/ ExtractFiles
    \/ ExtractFinish

BlockSpec == BlockInit /\ [][BlockNext]_vars

\* the length the reader derives from a ZSize value
StoredLen(zsize, block_size) == IF zsize = 0 THEN block_size ELSE zsize

\* the bytes of block b (1-based) in data laid out by the ZSize values zs
BlockBytes(data, zs, b) ==
    Norm(Slice(data,
               SumSeq([k \in 1..(b - 1) |-> StoredLen(zs[k], BLOCK_SIZE)]),
               StoredLen(zs[b], BLOCK_SIZE)))

\* the input blocks of file i of the pack
InputBlocks(i) == Chunks(FileBytes(pk.files[i].content), BLOCK_SIZE)

\* C12: every block of a recompressed file is stored compressed, with
\* ZSize = compressed length, exactly when the compressed length is below
\* the block's original length; otherwise the stored bytes are the input
\* block and ZSize is 0 for a full block and the original length for a
\* partial one.  No ZSize value is truncated to 16 bits.
BlockStorageDecision ==
    PackCompressed
        => \A i \in DOMAIN pk.files \ FromCache :
              LET pf == pk.processed[i]
                  chunks == InputBlocks(i)
              IN /\ Len(pf.zsizes) = Len(chunks)
                 /\ \A b \in DOMAIN chunks :
                       LET compressed == compress_block(chunks[b], pk.compression)
                           clen == BLen(compressed)
                           olen == BLen(chunks[b])
                           stored == BlockBytes(pf.compressed_data, pf.zsizes, b)
                       IN /\ pf.zsizes[b] < U16
                          /\ IF clen < olen
                             THEN /\ pf.zsizes[b] = clen
                                  /\ stored = Norm(compressed)
                             ELSE /\ stored = Norm(chunks[b])
                                  /\ pf.zsizes[b]
                                        = IF olen = BLOCK_SIZE THEN 0 ELSE olen

\* a pack has stored a full raw block, a partial raw block and a compressed
\* block
BlockStorageDecisionWitness ==
    /\ PackCompressed
    /\ \E i \in DOMAIN pk.processed : pk.processed[i].zsizes = <<0, 2>>
    /\ \E i \in DOMAIN pk.processed : pk.processed[i].zsizes = <<75>>

\* where the bytes written for entry i of archive ar end: at the start of
\* the next entry, or at the end of the file
EntryEnd(ar, i) ==
    IF i < Len(ar.entries) THEN ar.entries[i + 1].offset ELSE ar.flen

\* the number of bytes pack wrote for entry i of archive ar
WrittenLen(ar, i) == EntryEnd(ar, i) - ar.entries[i].offset

\* the number of bytes the reader derives from the ZSize values of entry i
DerivedLen(ar, i) ==
    SumSeq(BlockLens(EntryZSizes(ar, ar.entries[i]), ar.block_size))

\* C13: for every entry of a produced archive, the manifest entry included,
\* the length the reader derives from each ZSize (0 -> block_size, else the
\* value) equals the number of bytes the packer wrote, so that the reader's
\* cursor lands on each block start and on the end of the entry.
ZSizeSemantics ==
    PackWritten
        => \A i \in DOMAIN outFile.entries :
              DerivedLen(outFile, i) = WrittenLen(outFile, i)

\* input block b (1-based) of a file content, cut at multiples of BLOCK_SIZE
InputBlock(c, b) ==
    Slice(FileBytes(c), (b - 1) * BLOCK_SIZE,
          Min(BLOCK_SIZE, ContentLen(c) - (b - 1) * BLOCK_SIZE))

\* C14: a recompressed file of length L contributes exactly
\* ceil(L / 65536) ZSize entries, in block order: one for 65536 bytes (0 if
\* stored raw, otherwise a compressed size below 65536), two for 65537
\* bytes, none for an empty file.
BlockCount ==
    PackCompressed
        => \A i \in DOMAIN pk.files \ FromCache :
              LET c  == pk.files[i].content
                  L  == ContentLen(c)
                  zs == pk.processed[i].zsizes
              IN /\ Len(zs) = NumBlocks(L, BLOCK_SIZE)
                 /\ \A b \in DOMAIN zs :
                       zs[b] = StoreBlock(InputBlock(c, b), pk.compression).zsize_val
                 /\ SubSeq(pk.zsizes, pk.entries[i + 1].zsize_index + 1,
                           pk.entries[i + 1].zsize_index + Len(zs)) = zs
                 /\ i < Len(pk.files)
                       => pk.entries[i + 2].zsize_index
                             = pk.entries[i + 1].zsize_index + NumBlocks(L, BLOCK_SIZE)
                 /\ L = 0 => zs = <<>>
                 /\ L = BLOCK_SIZE
                       => Len(zs) = 1 /\ zs[1] >= 0 /\ zs[1] < BLOCK_SIZE
                 /\ L = BLOCK_SIZE + 1 => Len(zs) = 2

\* a pack has compressed a file of 65536 bytes stored raw and a file of
\* 65537 bytes
BlockCountWitness ==
    /\ PackCompressed
    /\ \E i \in DOMAIN pk.files :
          /\ ContentLen(pk.files[i].content) = BLOCK_SIZE
          /\ pk.processed[i].zsizes = <<0>>
    /\ \E i \in DOMAIN pk.files :
          /\ ContentLen(pk.files[i].content) = BLOCK_SIZE + 1
          /\ Len(pk.processed[i].zsizes) = 2

\* block decoding of entry i of the archive at the output path
Decoded(i) ==
    read_file_data(MmapBytes(outFile), outFile.flen, outFile.entries[i],
                   outFile.zsizes, outFile.block_size)

\* C15: for every entry of an archive written by pack, block decoding
\* returns exactly uncompressed_size bytes, also when the last block is
\* partial, raw or compressed, and when a raw partial last block of a
\* multi-block file starts with the two bytes of a zlib header.  Stated for
\* the entries of the files that hold at least one byte: the manifest entry
\* and the empty entries are the subject of C13 and C4.
TruncationResistance ==
    PackWritten
        => \A i \in DOMAIN outFile.entries :
              (i > 1 /\ outFile.entries[i].uncompressed_size > 0)
                 => /\ Decoded(i).ok
                    /\ BLen(Decoded(i).data) = outFile.entries[i].uncompressed_size

\* what the task of file i of the pack produces, whenever it runs
TaskResult(i) ==
    ProcessFile(pk.files[i], i - 1, pk.compression, pk.mode, pk.modified, pk.cache)

\* C16: for a fixed file order, contents, level, mode, modified set and
\* cache the archive is the same for every completion order of the parallel
\* tasks: entries, ZSizes and data are serialized in file-index order, each
\* file's blocks in block order, whichever task finished first.
DeterministicOutput ==
    PackCompressed
        => /\ Len(pk.entries) = Len(pk.files) + 1
           /\ \A i \in DOMAIN pk.files :
                 LET e == pk.entries[i + 1]
                     t == TaskResult(i)
                 IN /\ pk.processed[i].file_idx = i - 1
                    /\ e.name_hash = calculate_md5(pk.files[i].path)
                    /\ e.uncompressed_size = t.entry.uncompressed_size
                    /\ SubSeq(pk.zsizes, e.zsize_index + 1,
                              e.zsize_index + Len(t.zsizes)) = t.zsizes
                    /\ Norm(Slice(pk.data, e.offset, BLen(t.compressed_data)))
                          = Norm(t.compressed_data)
           /\ PackWritten
                 => outFile = WriteArchive(pk.entries, pk.zsizes, pk.data)

\* the task of the second file finished before the task of the first, and
\* the results have been serialized
DeterministicOutputWitness ==
    /\ pk.pc = "write"
    /\ pk.completion = <<2, 1>>
    /\ pk.files[1].content # pk.files[2].content

\* ---------------------------------------------------- path hash exploration
\* A third specification for the path hasher: one Full pack, then extract,
\* of a directory whose paths mix upper and lower case and non-ASCII bytes:
\* "a", "A", "aB", "Ab", "AB", "é" and "É" (UTF-8), each file of 6 bytes.
HashPaths ==
    {<<97>>, <<65>>, <<97, 66>>, <<65, 98>>, <<65, 66>>, <<195, 169>>, <<195, 137>>}

HashDirs ==
    UNION {[P -> {2}] : P \in {Q \in SUBSET HashPaths : Cardinality(Q) <= MaxFiles}}

HashInit ==
    /\ dir \in HashDirs
    /\ plan = "single"
    /\ manifestDisk = NoManifest
    /\ outFile = StockArchive
    /\ priorFile = NoArchive
    /\ stage = "fresh"
    /\ changed = {}
    /\ priorKind = "none"
    /\ pk = PkIdle
    /\ packStatus = <<>>
    /\ ex = ExIdle
    /\ extractStatus = <<>>
    /\ exOut = NoFiles

HashSpec == HashInit /\ [][BlockNext]_vars

\* byte x is byte y, or both are the same ASCII letter in different case
SameLetter(x, y) ==
    \/ x = y
    \/ IsAsciiLower(x) /\ y = x - 32
    \/ IsAsciiUpper(x) /\ y = x + 32

\* two paths that differ at most in the case of ASCII letters
DifferInCaseOnly(p, q) ==
    /\ Len(p) = Len(q)
    /\ \A k \in DOMAIN p : SameLetter(p[k], q[k])

\* C17: the name hash of a path is the MD5 of its ASCII-uppercased bytes,
\* whichever branch computes it; two paths that differ only in the case of
\* ASCII letters have the same hash; bytes outside ASCII are never folded,
\* so paths that differ in such a byte keep different hashes.
HashCaseInsensitive ==
    PackCompressed
        => \A i, j \in DOMAIN pk.files :
              LET p == pk.files[i].path
                  q == pk.files[j].path
                  hp == pk.entries[i + 1].name_hash
                  hq == pk.entries[j + 1].name_hash
              IN /\ hp = Md5(to_ascii_uppercase(p))
                 /\ DifferInCaseOnly(p, q) => hp = hq
                 /\ ~DifferInCaseOnly(p, q) => hp # hq

\* a pack has hashed two mixed-case paths that differ only in case
HashCaseInsensitiveWitness ==
    /\ PackCompressed
    /\ \E i, j \in DOMAIN pk.files :
          /\ pk.files[i].path = <<97, 66>>
          /\ pk.files[j].path = <<65, 98>>
          /\ pk.entries[i + 1].name_hash = pk.entries[j + 1].name_hash

\* the number of bytes pack stored for entry j of its archive: the manifest
\* blocks for entry 1, the file's data for the others
StoredBytes(j) ==
    IF j = 1
    THEN BLen(ManifestBlocks(Chunks(Lits(pk.filelist_bytes), BLOCK_SIZE),
                             pk.compression, [zsizes |-> <<>>, data |-> <<>>]).data)
    ELSE BLen(pk.processed[j - 1].compressed_data)

\* the number of ZSize entries pack appended for entry j of its archive
StoredZSizes(j) ==
    NumBlocks(outFile.entries[j].uncompressed_size, BLOCK_SIZE)

\* C18: in every archive written by pack entry 0 has the all-zero hash and
\* holds the manifest; zsize_index(i) is the number of ZSize entries of the
\* entries before i and offset(i) is toc_length plus the bytes stored for the
\* entries before i; so offsets do not decrease, data regions do not overlap
\* and end at the end of the archive, and the ZSize range of every non-empty
\* entry lies inside the table.
ContiguousLayout ==
    PackWritten
        => LET es == outFile.entries IN
           /\ outFile.toc_length
                 = HEADER_SIZE + ENTRY_SIZE * Len(es) + 2 * Len(outFile.zsizes)
           /\ outFile.file_count = Len(es)
           /\ es[1].name_hash = ZeroHash
           /\ es[1].uncompressed_size = Len(pk.filelist_bytes)
           /\ StoresText(outFile.data, pk.filelist_bytes)
           /\ \A i \in DOMAIN es :
                 /\ es[i].zsize_index
                       = SumSeq([j \in 1..(i - 1) |-> StoredZSizes(j)])
                 /\ es[i].offset
                       = outFile.toc_length
                            + SumSeq([j \in 1..(i - 1) |-> StoredBytes(j)])
                 /\ es[i].offset + StoredBytes(i) = EntryEnd(outFile, i)
                 /\ i < Len(es) => es[i].offset <= es[i + 1].offset
                 /\ es[i].uncompressed_size > 0
                       => es[i].zsize_index + StoredZSizes(i) <= Len(outFile.zsizes)
           /\ FullLen(outFile) = outFile.flen

\* an Incremental pack has written an archive with a reused entry and an
\* entry of two blocks
ContiguousLayoutWitness ==
    /\ PackWritten
    /\ pk.mode = "Incremental"
    /\ FromCache # {}
    /\ Len(outFile.entries) = 3
    /\ \E i \in DOMAIN outFile.entries : StoredZSizes(i) = 2

\* ----------------------------------------------------- header and TOC codec
\* The header, the TOC and the ZSize table byte by byte.  A u64 is its eight
\* bytes and a u32 its four bytes, most significant byte first, so that the
\* widths of the written fields are exact for every value.
MaxEntries == 2

\* a length or count of the model as u64 / usize
ToU64(n) ==
    <<0, 0, 0, 0, (n \div 16777216) % 256, (n \div 65536) % 256,
      (n \div 256) % 256, n % 256>>

\* u64 addition, wrapping
RECURSIVE AddBytes(_, _, _, _)
AddBytes(a, b, i, carry) ==
    IF i = 0 THEN <<>>
    ELSE LET s == a[i] + b[i] + carry
         IN AddBytes(a, b, i - 1, s \div 256) \o <<s % 256>>

AddU64(a, b) == AddBytes(a, b, 8, 0)

\* `x >> 32` on a u64
Shr32(x) == <<0, 0, 0, 0>> \o SubSeq(x, 1, 4)

\* `x as u8` and `x as u32` on a u64: the low byte, the low four bytes
as_u8(x) == x[8]
as_u32(x) == SubSeq(x, 5, 8)

\* write_u8, write_u16::<BigEndian>, write_u32::<BigEndian>
write_u8(b) == <<b>>
write_u16(v) == <<v \div 256, v % 256>>
write_u32(w) == <<w[1], w[2], w[3], w[4]>>

\* a 40-bit field written with its low word first
write_u40_low_first(x) ==
    write_u32(as_u32(x)) \o write_u8(as_u8(Shr32(x)))

\* a 40-bit field: the high byte, then the low 32-bit word
write_u40(x) ==
    write_u8(as_u8(Shr32(x))) \o write_u32(as_u32(x))

RECURSIVE WriteEntries(_, _)
WriteEntries(entries, toc_length) ==
    IF entries = <<>> THEN <<>>
    ELSE LET entry == Head(entries)
             absolute_offset == AddU64(entry.offset, toc_length)
         IN entry.name_hash
               \o write_u32(entry.zsize_index)
               \o write_u40(entry.uncompressed_size)
               \o write_u40(absolute_offset)
               \o WriteEntries(Tail(entries), toc_length)

RECURSIVE WriteZSizes(_)
WriteZSizes(zsizes) ==
    IF zsizes = <<>> THEN <<>>
    ELSE write_u16(Head(zsizes)) \o WriteZSizes(Tail(zsizes))

\* the bytes pack writes before the data
WriteToc(entries, zsizes) ==
    LET toc_entries_size == Len(entries) * 30
        zsizes_size == Len(zsizes) * 2
        toc_length == ToU64(32 + toc_entries_size + zsizes_size)
    IN <<80, 83, 65, 82>> \o write_u16(1) \o write_u16(4)
          \o <<122, 108, 105, 98>>
          \o write_u32(as_u32(toc_length))
          \o write_u32(as_u32(ToU64(30)))
          \o write_u32(as_u32(ToU64(Len(entries))))
          \o write_u32(as_u32(ToU64(BLOCK_SIZE)))
          \o write_u32(as_u32(ToU64(1)))
          \o WriteEntries(entries, toc_length)
          \o WriteZSizes(zsizes)

\* read_u32::<BigEndian> at a position of the mapped file, as the four bytes
read_u32(mmap, pos) == SubSeq(mmap, pos + 1, pos + 4)
read_u8(mmap, pos) == mmap[pos + 1]

\* ((high as u64) << 32) | (low as u64)
JoinU40(high, low) == <<0, 0, 0, high>> \o low

\* `x as usize` of a u32 that fits the model's numbers
ToUsize(w) == ((w[1] * 256 + w[2]) * 256 + w[3]) * 256 + w[4]

RECURSIVE ReadEntries(_, _, _)
ReadEntries(mmap, pos, count) ==
    IF count = 0 THEN <<>>
    ELSE LET name_hash == SubSeq(mmap, pos + 1, pos + 16)
             zsize_index == read_u32(mmap, pos + 16)
             uncompressed_size_high == read_u8(mmap, pos + 20)
             uncompressed_size_low == read_u32(mmap, pos + 21)
             offset_high == read_u8(mmap, pos + 25)
             offset_low == read_u32(mmap, pos + 26)
         IN <<Entry(name_hash, zsize_index,
                    JoinU40(uncompressed_size_high, uncompressed_size_low),
                    JoinU40(offset_high, offset_low))>>
               \o ReadEntries(mmap, pos + 30, count - 1)

\* what extract reads from the bytes before the data
ParseToc(mmap) ==
    LET magic == SubSeq(mmap, 1, 4)
        compression == SubSeq(mmap, 9, 12)
        toc_length == read_u32(mmap, 12)
        file_count == read_u32(mmap, 20)
        block_size == read_u32(mmap, 24)
        zsizes_start == 32 + ToUsize(file_count) * 30
        zsizes_count == (ToUsize(toc_length) - 32 - ToUsize(file_count) * 30) \div 2
    IN IF magic # <<80, 83, 65, 82>> THEN [error |-> "InvalidData"]
       ELSE IF compression # <<122, 108, 105, 98>> THEN [error |-> "Unsupported"]
       ELSE [error |-> "",
             toc_length |-> toc_length,
             file_count |-> file_count,
             block_size |-> block_size,
             entries |-> ReadEntries(mmap, 32, ToUsize(file_count)),
             zsizes |-> [i \in 1..zsizes_count |->
                           LET pos == zsizes_start + (i - 1) * 2
                           IN mmap[pos + 1] * 256 + mmap[pos + 2]]]

\* sizes and data offsets an entry can carry, up to and past the 32-bit
\* and 40-bit limits
TocSizes ==
    {ToU64(0), <<0, 0, 0, 0, 1, 2, 3, 4>>, <<0, 0, 0, 0, 255, 255, 255, 255>>,
     <<0, 0, 0, 5, 6, 7, 8, 9>>, <<0, 0, 1, 0, 0, 0, 0, 0>>,
     <<1, 2, 3, 4, 5, 6, 7, 8>>}

TocOffsets ==
    {ToU64(0), <<0, 0, 0, 0, 255, 255, 255, 200>>,
     <<0, 0, 0, 255, 255, 255, 255, 160>>}

TocZSizes == {<<>>, <<0>>, <<258, 65535>>}

TocHash(i) == IF i = 1 THEN ZeroHash ELSE Md5(<<97>>)

TocEntryLists ==
    UNION {{[i \in 1..n |-> Entry(TocHash(i), <<i, 0, 0, i + 1>>, s[i], o[i])] :
               s \in [1..n -> TocSizes], o \in [1..n -> TocOffsets]} :
           n \in 1..MaxEntries}

\* the pack worker at Phase 3 with an entry list and a ZSize list
TocInit ==
    /\ \E entries \in TocEntryLists, zsizes \in TocZSizes :
          pk = [PkIdle EXCEPT !.pc = "write", !.entries = entries,
                              !.zsizes = zsizes]
    /\ dir = [p \in {} |-> 1]
    /\ plan = "single"
    /\ manifestDisk = NoManifest
    /\ outFile = <<>>
    /\ priorFile = NoArchive
    /\ stage = "packing1"
    /\ changed = {}
    /\ priorKind = "none"
    /\ packStatus = <<>>
    /\ ex = ExIdle
    /\ extractStatus = <<>>
    /\ exOut = NoFiles

\* pack writes the header, the TOC entries and the ZSize table
TocWrite ==
    /\ pk.pc = "write"
    /\ outFile' = WriteToc(pk.entries, pk.zsizes)
    /\ pk' = [pk EXCEPT !.pc = "finish"]
    /\ UNCHANGED <<dir, manifestDisk, priorFile, plan, stage, changed, priorKind,
                   packStatus, ex, extractStatus, exOut>>

\* extract reads the header, the TOC entries and the ZSize table
TocParse ==
    /\ pk.pc = "finish"
    /\ ex.pc = "idle"
    /\ LET toc == ParseToc(outFile)
       IN ex' = IF toc.error # ""
                THEN [ex EXCEPT !.pc = "done", !.error = toc.error]
                ELSE [ex EXCEPT !.pc = "files", !.entries = toc.entries,
                                !.zsizes = toc.zsizes,
                                !.block_size = toc.block_size]
    /\ UNCHANGED <<dir, manifestDisk, outFile, priorFile, plan, stage, changed,
                   priorKind, pk, packStatus, extractStatus, exOut>>

TocNext == TocWrite \/ TocParse

TocSpec == TocInit /\ [][TocNext]_vars

\* a < b on u64
RECURSIVE LessBytes(_, _, _)
LessBytes(a, b, i) ==
    IF i > Len(a) THEN FALSE
    ELSE IF a[i] # b[i] THEN a[i] < b[i]
    ELSE LessBytes(a, b, i + 1)

Below(a, limit) == LessBytes(a, limit, 1)

Two32 == <<0, 0, 0, 1, 0, 0, 0, 0>>
Two40 == <<0, 0, 1, 0, 0, 0, 0, 0>>

\* the table length of the worker's lists and the absolute offset of entry i
TocLength == 32 + 30 * Len(pk.entries) + 2 * Len(pk.zsizes)
AbsoluteOffset(i) == AddU64(pk.entries[i].offset, ToU64(TocLength))

\* the entry list as extract holds it: absolute offsets
AbsoluteEntries ==
    [i \in DOMAIN pk.entries |->
        [pk.entries[i] EXCEPT !.offset = AbsoluteOffset(i)]]

\* the 32-bit field of a 64-bit value read back as a number
U32RoundTrip(x) == <<0, 0, 0, 0>> \o read_u32(write_u32(as_u32(x)), 0)

\* C19: pack writes toc_length = 32 + 30*N_entries + 2*N_zsizes and
\* file_count = N_entries, and each entry's size and absolute offset as a
\* high byte followed by the big-endian low word; parsing the written bytes
\* as extract does gives back the same entry list and the same ZSize list
\* whenever the sizes and absolute offsets are below 2^40 (the table length
\* is below 2^32); a size or offset at or above 2^40 is not read back as
\* written, and a 32-bit field keeps exactly the values below 2^32.
TocRoundTrip ==
    ex.pc = "files"
        => /\ ToUsize(read_u32(outFile, 12)) = TocLength
           /\ ToUsize(read_u32(outFile, 20)) = Len(pk.entries)
           /\ Len(ex.zsizes) = Len(pk.zsizes)
           /\ \A i \in DOMAIN pk.entries :
                 LET pos == 32 + 30 * (i - 1)
                     size == pk.entries[i].uncompressed_size
                 IN /\ SubSeq(outFile, pos + 21, pos + 25) = SubSeq(size, 4, 8)
                    /\ SubSeq(outFile, pos + 26, pos + 30)
                          = SubSeq(AbsoluteOffset(i), 4, 8)
                    /\ Below(size, Two40)
                          <=> ex.entries[i].uncompressed_size = size
                    /\ Below(AbsoluteOffset(i), Two40)
                          <=> ex.entries[i].offset = AbsoluteOffset(i)
                    /\ Below(size, Two32) <=> U32RoundTrip(size) = size
           /\ (\A i \in DOMAIN pk.entries :
                  /\ Below(pk.entries[i].uncompressed_size, Two40)
                  /\ Below(AbsoluteOffset(i), Two40))
                 => /\ ex.entries = AbsoluteEntries
                    /\ ex.zsizes = pk.zsizes

\* two entries and two ZSize values were written and read back, one size
\* using the high byte, one offset carrying into it
TocRoundTripWitness ==
    /\ ex.pc = "files"
    /\ Len(pk.entries) = 2
    /\ Len(pk.zsizes) = 2
    /\ ex.entries = AbsoluteEntries
    /\ ex.zsizes = pk.zsizes
    /\ pk.entries[1].uncompressed_size = <<0, 0, 0, 5, 6, 7, 8, 9>>
    /\ pk.entries[2].offset = <<0, 0, 0, 0, 255, 255, 255, 200>>
    /\ ex.entries[2].offset[4] = 1

\* the extract worker delivered a final status
ExtractTerminal == \E i \in DOMAIN extractStatus : ~extractStatus[i].active

\* C20: whatever the bytes of the archive, a reference outside the archive
\* or outside the ZSize table (an entry offset, a block range, a ZSize index,
\* the ZSize table region implied by toc_length and file_count) ends extract
\* with an error on the status channel: the worker never unwinds, and when it
\* has ended it has delivered a final status.
MandatoryBoundsChecks ==
    /\ ex.pc # "panicked"
    /\ ExtractEnded => ExtractTerminal

\* the pack worker is past the scan and the directory is as it was scanned
Scanned == stage \in {"packing1", "packing2"} /\ pk.pc \notin {"idle", "scan"}

\* no usable on-disk manifest: absent, not UTF-8, or without a non-empty line
NoUsableManifest == DiskLines = <<>>

\* every manifest line names a discovered file, and some discovered file is
\* not listed
ManifestIncomplete ==
    /\ DiskLines # <<>>
    /\ SeqToSet(DiskLines) \subseteq DOMAIN dir
    /\ SeqToSet(DiskLines) # DOMAIN dir

\* paths joined by "\n", nothing after the last one
RECURSIVE JoinedByNewline(_)
JoinedByNewline(paths) ==
    IF paths = <<>> THEN <<>>
    ELSE IF Len(paths) = 1 THEN paths[1]
    ELSE paths[1] \o <<10>> \o JoinedByNewline(Tail(paths))

\* C21: without a usable on-disk manifest, or when every manifest line names
\* a discovered file but some discovered file is not listed, the resolver
\* succeeds, orders all discovered files by ascending name hash, each exactly
\* once, and generates the manifest as their paths in that order joined by
\* "\n" without a trailing newline (empty for no file).
HashSortFallbackOrder ==
    (Scanned /\ (NoUsableManifest \/ ManifestIncomplete))
        => /\ pk.error # "ManifestReferenceMissing"
           /\ Len(pk.files) = Cardinality(DOMAIN dir)
           /\ {pk.files[i].path : i \in DOMAIN pk.files} = DOMAIN dir
           /\ \A i, j \in DOMAIN pk.files :
                 i < j => ~HashCmpLess(calculate_md5(pk.files[j].path),
                                       calculate_md5(pk.files[i].path))
           /\ pk.filelist_bytes = JoinedByNewline(PathsOf(pk.files))

\* ------------------------------------------------------------ the scan walk
\* The walk of Phase 1 over a directory that also holds files named like the
\* manifest and the file at the output path.  PackScan above starts from the
\* result of this walk for a directory without such files.
FileListName == <<102, 105, 108, 101, 108, 105, 115, 116, 46, 120, 109, 108>>
PathFileList == <<70, 105, 108, 101, 76, 105, 115, 116, 46, 120, 109, 108>>
PathSubFileList == <<115, 47>> \o FileListName

\* the output path when it lies in the packed directory, relative to the root
OutputPath == <<111>>

\* std::fs::read of a file that holds text: "a", "o" and "a", "a" and
\* "FileList.xml", one per line
FileText(c) ==
    CASE c = 11 -> <<97, 10, 10, 10, 10, 10>>
      [] c = 13 -> <<111, 10, 97, 10, 10, 10>>
      [] c = 14 -> <<97, 10>> \o PathFileList
      [] OTHER -> <<255, 255, 255, 255, 255, 255>>

TextContents == {11, 13, 14}

\* a root-level file whose name is "filelist.xml" whatever the letter case
is_filelist_exact(psarc_path) ==
    psarc_path = PathFileList

\* name_lower == "filelist.xml"
is_filelist(psarc_path) ==
    LET name_lower == to_ascii_lowercase(psarc_path)
    IN name_lower = FileListName

\* the loop over the walked files: [discovered_files, manifest_bytes_on_disk]
RECURSIVE Discover(_, _, _)
Discover(walked, tree, acc) ==
    IF walked = <<>> THEN acc
    ELSE LET path == Head(walked) IN
         IF path = OutputPath
         THEN Discover(Tail(walked), tree, acc)
         ELSE IF is_filelist(path)
         THEN Discover(Tail(walked), tree,
                 IF ~acc.manifest_bytes_on_disk.present
                 THEN [acc EXCEPT !.manifest_bytes_on_disk =
                          [present |-> TRUE, bytes |-> FileText(tree[path])]]
                 ELSE acc)
         ELSE Discover(Tail(walked), tree,
                 [acc EXCEPT !.discovered_files =
                     Append(@, [path |-> path, content |-> tree[path]])])

ScanPaths == {PathA, PathFileList, FileListName, PathSubFileList, OutputPath}

\* the directories of the walk: manifest-named files at the root hold text
ScanDirs ==
    {d \in UNION {[P -> {2} \cup TextContents] : P \in SUBSET ScanPaths} :
        \A p \in DOMAIN d : d[p] \in TextContents <=> p \in {PathFileList, FileListName}}

ScanInit ==
    /\ dir \in ScanDirs
    /\ plan = "single"
    /\ manifestDisk = NoManifest
    /\ outFile = StockArchive
    /\ priorFile = NoArchive
    /\ stage = "fresh"
    /\ changed = {}
    /\ priorKind = "none"
    /\ pk = PkIdle
    /\ packStatus = <<>>
    /\ ex = ExIdle
    /\ extractStatus = <<>>
    /\ exOut = NoFiles

\* Phase 1 with the walk: WalkDir yields the files in some order, the loop
\* fills discovered_files and manifest_bytes_on_disk (kept in manifestDisk),
\* then resolve_file_order(...)?
PackScanWalk ==
    /\ pk.pc = "scan"
    /\ \E walked \in Perms(DOMAIN dir) :
          LET scan == Discover(walked, dir,
                               [discovered_files |-> <<>>,
                                manifest_bytes_on_disk |-> NoManifest])
              r == resolve_file_order(scan.discovered_files,
                                      scan.manifest_bytes_on_disk)
          IN /\ manifestDisk' = scan.manifest_bytes_on_disk
             /\ pk' = IF r.ok
                      THEN [pk EXCEPT !.pc = "cache", !.files = r.files,
                                      !.filelist_bytes = r.filelist_bytes,
                                      !.walk = walked]
                      ELSE [pk EXCEPT !.pc = "finish", !.result = "err",
                                      !.error = "ManifestReferenceMissing",
                                      !.missing = r.missing, !.walk = walked]
    /\ packStatus' = Append(packStatus, Status("Scanning", Progress0, TRUE, ""))
    /\ UNCHANGED <<dir, outFile, priorFile, plan, stage, changed,
                   priorKind, ex, extractStatus, exOut>>

ScanNext ==
    \/ StartPack("Full", {}, "none")
    \/ PackScanWalk
    \/ PackLoadCache
    \/ PackCompress
    \/ PackSerialize
    \/ PackWrite
    \/ PackFinish

ScanSpec == ScanInit /\ [][ScanNext]_vars

\* the names a reference to the manifest file or to the output archive can
\* take: the root-level manifest names and the output path
ExcludedPaths == {p \in DOMAIN dir : to_ascii_lowercase(p) = FileListName}
                    \cup {OutputPath, PathFileList, FileListName}

\* the first manifest-named file of the walk
RECURSIVE FirstManifest(_)
FirstManifest(walked) ==
    IF walked = <<>> THEN NoManifest
    ELSE IF to_ascii_lowercase(Head(walked)) = FileListName
    THEN [present |-> TRUE, bytes |-> FileText(dir[Head(walked)])]
    ELSE FirstManifest(Tail(walked))

\* C22: the file list handed to the resolver holds neither the output path
\* nor a root-level file named "filelist.xml" in any letter case, and holds
\* every other file; so no TOC entry after entry 0 and no manifest line of a
\* written archive refers to the manifest file or to the output archive; the
\* first manifest-named file of the walk is the on-disk manifest.
DiscoveryExclusions ==
    pk.walk # <<>>
        => /\ \A i \in DOMAIN pk.files : pk.files[i].path \notin ExcludedPaths
           /\ pk.result # "err"
                 => {pk.files[i].path : i \in DOMAIN pk.files}
                       = DOMAIN dir \ ExcludedPaths
           /\ manifestDisk = FirstManifest(pk.walk)
           /\ PackWritten
                 => /\ \A i \in 2..Len(outFile.entries), p \in ExcludedPaths :
                          outFile.entries[i].name_hash # calculate_md5(p)
                    /\ \A p \in ExcludedPaths :
                          p \notin SeqToSet(normalize_manifest_lines(pk.filelist_bytes))
                    /\ Len(outFile.entries) = Len(pk.files) + 1

\* a pack has written an archive for a directory that holds both manifest
\* names, the output file and two other files, "filelist.xml" walked first
DiscoveryExclusionsWitness ==
    /\ PackWritten
    /\ DOMAIN dir = ScanPaths
    /\ manifestDisk.present
    /\ manifestDisk.bytes = FileText(dir[FileListName])
    /\ dir[FileListName] # dir[PathFileList]
    /\ Len(outFile.entries) = 3

\* the TOC entries the extract loop does not skip, in TOC order
IsExtracted(entry) == entry.name_hash # ZeroHash /\ entry.offset # 0
ExtractedEntries == SelectSeq(ex.entries, IsExtracted)

\* the lines of the manifest that pack stored in the archive
StoredLines == {pk.files[i].path : i \in DOMAIN pk.files}

\* the stored manifest lines that resolve a name hash
MatchingLines(name_hash) ==
    {line \in StoredLines :
        name_hash \in {calculate_md5(line),
                       calculate_md5(to_ascii_uppercase(line)),
                       calculate_md5(to_ascii_lowercase(line))}}

\* C23: extract of an archive written by pack handles the TOC entries in
\* order, writes nothing for an entry with all-zero hash or offset 0, writes
\* every other entry to a manifest line whose hash (as it is, upper-cased or
\* lower-cased) is the entry's hash, and to _Unknowns/<hash>.bin only when no
\* manifest line matches.
ExtractNameResolution ==
    ExtractedLastPack
        => /\ Len(ex.log) <= Len(ExtractedEntries)
           /\ ex.pc = "done" => Len(ex.log) = Len(ExtractedEntries)
           /\ \A k \in DOMAIN ex.log :
                 LET lines == MatchingLines(ExtractedEntries[k].name_hash)
                 IN IF lines = {}
                    THEN ex.log[k] = Unknown(ExtractedEntries[k].name_hash)
                    ELSE \E line \in lines : ex.log[k] = Known(line)

\* the archive an Incremental pack was given as prior archive
PriorGiven == IF pk.existing = "prior" THEN priorFile ELSE pk.out_before

\* the pack worker is past the cache load of a prior archive whose header,
\* TOC entries and ZSize table can be read
CacheLoadedFrom(ar) ==
    /\ pk.pc \notin {"idle", "scan", "cache"}
    /\ pk.error # "ManifestReferenceMissing"
    /\ pk.mode = "Incremental"
    /\ pk.existing # "none"
    /\ ar = PriorGiven
    /\ Exists(ar)
    /\ ar.magic = "PSAR"
    /\ ar.toc_length >= HEADER_SIZE + ENTRY_SIZE * ar.file_count
    /\ ar.flen >= ar.toc_length

\* the ZSize slice and every block of entry e lie inside archive ar
BlocksReadable(ar, e) ==
    /\ e.zsize_index + NumBlocks(e.uncompressed_size, ar.block_size) <= Len(ar.zsizes)
    /\ e.offset + SumSeq(BlockLens(EntryZSizes(ar, e), ar.block_size)) <= ar.flen

\* C24: after the cache load from a prior archive whose header and TOC
\* parse, the load has not failed, the manifest entry is not cached, every
\* other entry whose blocks can be read is cached under its name hash with
\* its stored bytes, one ZSize per block and its uncompressed size, and an
\* entry whose ZSize index or block range is out of bounds is not cached.
BestEffortCache ==
    \A ar \in {PriorGiven} :
        CacheLoadedFrom(ar)
            => /\ pk.cache_status = "ok"
               /\ ZeroHash \notin DOMAIN pk.cache
               /\ \A i \in 1..ar.file_count :
                     LET e == ar.entries[i] IN
                     e.name_hash # ZeroHash
                        => IF BlocksReadable(ar, e)
                           THEN /\ e.name_hash \in DOMAIN pk.cache
                                /\ pk.cache[e.name_hash]
                                      = [compressed_data |-> EntryRegion(ar, e),
                                         zsizes |-> EntryZSizes(ar, e),
                                         uncompressed_size |-> e.uncompressed_size]
                           ELSE \/ e.name_hash \notin DOMAIN pk.cache
                                \/ \E j \in 1..ar.file_count :
                                      /\ ar.entries[j].name_hash = e.name_hash
                                      /\ BlocksReadable(ar, ar.entries[j])

\* extract rejects the archive at its header
RejectedAtHeader(ar) ==
    Exists(ar) /\ (ar.magic # "PSAR" \/ ar.compression # "zlib")

\* C25: a prior archive that extract rejects at the header (magic other
\* than "PSAR", compression tag other than "zlib") gives an Incremental pack
\* no cache entry, and no file of that pack is taken from the cache.
CacheHeaderValidation ==
    (/\ pk.pc \notin {"idle", "scan", "cache"}
     /\ pk.error # "ManifestReferenceMissing"
     /\ pk.mode = "Incremental"
     /\ pk.existing # "none"
     /\ RejectedAtHeader(PriorGiven))
        => /\ pk.cache = EmptyCache
           /\ pk.reused = 0
           /\ FromCache = {}

\* C26: in an archive written by pack no two entries after entry 0 carry
\* the same name hash, also when two paths of the directory differ only in
\* ASCII letter case; and after extract of that archive every file of the
\* packed directory exists under its own path.
DistinctEntries ==
    /\ PackWritten
          => \A i, j \in 2..Len(outFile.entries) :
                outFile.entries[i].name_hash = outFile.entries[j].name_hash => i = j
    /\ (ExtractedLastPack /\ ex.pc = "done")
          => \A p \in DOMAIN dir : Known(p) \in DOMAIN exOut

\* ------------------------------------------------- pack with failing I/O
\* tempfile::tempfile()? returns an error
PackTempFileError ==
    /\ pk.pc = "compress"
    /\ pk' = [pk EXCEPT !.pc = "finish", !.result = "err", !.error = "Io"]
    /\ UNCHANGED <<dir, manifestDisk, outFile, priorFile, plan, stage, changed,
                   priorKind, packStatus, ex, extractStatus, exOut>>

\* File::open(sys_path)? or Mmap::map(&file)? returns an error for a file
\* that is not taken from the cache: the collected result is that error
PackSourceError ==
    /\ pk.pc = "compress"
    /\ \E i \in DOMAIN pk.files :
          should_recompress(pk.files[i], pk.mode, pk.modified, pk.cache)
    /\ pk' = [pk EXCEPT !.pc = "finish", !.result = "err", !.error = "Io",
                        !.temp_created = TRUE]
    /\ UNCHANGED <<dir, manifestDisk, outFile, priorFile, plan, stage, changed,
                   priorKind, packStatus, ex, extractStatus, exOut>>

\* one pack of a directory, over the archive at the output path
IoInit == Init /\ plan = "single"

IoNext ==
    \/ StartPack("Full", {}, "none")
    \/ stage = "fresh" /\ StartPack("Incremental", {}, "output")
    \/ PackScan
    \/ PackLoadCache
    \/ PackCompress
    \/ PackTempFileError
    \/ PackSourceError
    \/ PackSerialize
    \/ PackWrite
    \/ PackFinish

IoSpec == IoInit /\ [][IoNext]_vars

\* the scan, the order resolution, the cache load and the compression of
\* every file have completed without error
ReadyToWrite ==
    /\ pk.pc = "write"
    /\ pk.result # "err"
    /\ pk.temp_created
    /\ pk.cache_status # "panic"
    /\ Len(pk.processed) = Len(pk.files)
    /\ Len(pk.entries) = Len(pk.files) + 1

\* C27: during a pack the file at the output path changes only once the
\* scan, the order resolution, the cache load and the compression of every
\* file have completed without error; a pack that fails in one of those
\* steps (missing manifest reference, source file not opened or mapped,
\* temporary file not created) leaves a file that was at the output path,
\* the prior archive of an Incremental pack included, as it was.
OutputWrittenLast ==
    /\ [][outFile' # outFile => ReadyToWrite]_vars
    /\ [](pk.result = "err" => outFile = pk.out_before)

\* an Incremental pack over the archive at the output path has filled its
\* cache from it, has created the temporary file and has failed at a source
\* file; the archive is still there
OutputWrittenLastWitness ==
    /\ pk.pc = "failed"
    /\ pk.error = "Io"
    /\ pk.temp_created
    /\ pk.mode = "Incremental"
    /\ pk.existing = "output"
    /\ pk.cache # EmptyCache
    /\ outFile = StockArchive

\* the positions of the statuses with active = false
Terminals(statuses) == {i \in DOMAIN statuses : ~statuses[i].active}

\* at most one final status, none after it, with no error and progress 1.0
\* on success and with the error on failure
OneTerminal(statuses, ok) ==
    /\ Cardinality(Terminals(statuses)) <= 1
    /\ \A i \in Terminals(statuses) :
          /\ i = Len(statuses)
          /\ IF ok THEN statuses[i].error = "" /\ statuses[i].progress = Progress1
             ELSE statuses[i].error # ""

\* C28: a pack run and an extract run each send at most one status with
\* active = false and no status after it; a run that has ended has sent it;
\* it carries no error and progress 1.0 on success and the error on failure.
SingleTerminalStatus ==
    /\ OneTerminal(packStatus, pk.result # "err")
    /\ OneTerminal(extractStatus, ex.result # "err")
    /\ PackEnded => Terminals(packStatus) # {}
    /\ ExtractEnded => Terminals(extractStatus) # {}

\* ------------------------------------------------- the block loops, stepwise
\* The loop of read_file_data and the loop of read_cached_file_data, one
\* iteration per step, over a mapped file, a TOC entry, a ZSize table and a
\* header block size that need not belong together.  The loop variables of
\* read_file_data are kept in ex, those of read_cached_file_data in pk, the
\* mapped file in priorFile.
MaxZSizes == 2

\* a mapped file: 62 bytes before the data, a zlib stream of 11 bytes that
\* inflates to 200, 6 raw bytes, and the same stream again
LoopFile ==
    <<Piece("h", 0, 0, 62, <<>>)>> \o compress_block(FileBytes(3), 6)
        \o FileBytes(2) \o compress_block(FileBytes(3), 6)

LoopZSizes == UNION {[1..n -> {0, 6, 11}] : n \in 0..MaxZSizes}

LoopEntries ==
    {Entry(Md5(PathA), z, size, offset) :
        z \in 0..(MaxZSizes + 1), size \in {0, 6, 200, 400}, offset \in {62, 73, 90}}

LoopBlockSizes == {0, 6, BLOCK_SIZE}

\* the loop variables before the first iteration
LoopStart(entry, zsizes, block_size) ==
    [pc |-> "loop", entry |-> entry, zsizes |-> zsizes, block_size |-> block_size,
     result |-> <<>>, result_zsizes |-> <<>>,
     current_zsize_index |-> entry.zsize_index,
     current_offset |-> entry.offset,
     remaining |-> entry.uncompressed_size,
     iterations |-> 0, error |-> ""]

DecodeInit ==
    /\ \E entry \in LoopEntries, zsizes \in LoopZSizes, block_size \in LoopBlockSizes :
          /\ ex = LoopStart(entry, zsizes, block_size)
          /\ pk = LoopStart(entry, zsizes, block_size)
    /\ priorFile = LoopFile
    /\ dir = [p \in {} |-> 1]
    /\ plan = "single"
    /\ manifestDisk = NoManifest
    /\ outFile = NoArchive
    /\ stage = "fresh"
    /\ changed = {}
    /\ priorKind = "none"
    /\ packStatus = <<>>
    /\ extractStatus = <<>>
    /\ exOut = NoFiles

\* a loop that moves the offset on and stays at its ZSize index
AdvanceOffsetOnly(l, compressed_size, block_size) ==
    [l EXCEPT !.current_offset = @ + compressed_size,
              !.remaining = SatSub(@, block_size)]

\* the end of an iteration: current_offset += compressed_size, remaining =
\* remaining.saturating_sub(block_size), current_zsize_index += 1
Advance(l, compressed_size, block_size) ==
    [l EXCEPT !.current_offset = @ + compressed_size,
              !.remaining = SatSub(@, block_size),
              !.current_zsize_index = @ + 1]

LoopFail(l, error) == [l EXCEPT !.pc = "err", !.error = error]

\* read_file_data: the offset check, then one test of the loop condition
\* and, when it holds, one iteration
ReadStep ==
    /\ ex.pc = "loop"
    /\ LET mmap == priorFile
           mlen == BLen(priorFile)
       IN ex' =
          IF ex.iterations = 0 /\ ex.current_offset >= mlen
          THEN LoopFail(ex, "CorruptOffset")
          ELSE IF BLen(ex.result) >= ex.entry.uncompressed_size
          THEN [ex EXCEPT !.pc = "ok"]
          ELSE LET l == [ex EXCEPT !.iterations = @ + 1] IN
               IF l.current_zsize_index >= Len(l.zsizes)
               THEN LoopFail(l, "CorruptZSizeIndex")
               ELSE LET zsize == l.zsizes[l.current_zsize_index + 1]
                        compressed_size == IF zsize = 0 THEN l.block_size ELSE zsize
                    IN IF l.current_offset + compressed_size > mlen
                       THEN LoopFail(l, "CorruptBlockBounds")
                       ELSE LET d == DecodeBlock(
                                        Slice(mmap, l.current_offset, compressed_size),
                                        compressed_size, zsize, l.entry, l.remaining,
                                        l.block_size)
                            IN IF ~d.ok THEN LoopFail(l, "InflateFailed")
                               ELSE Advance([l EXCEPT !.result = Norm(@ \o d.data)],
                                            compressed_size, l.block_size)
    /\ UNCHANGED <<dir, manifestDisk, outFile, priorFile, plan, stage, changed,
                   priorKind, pk, packStatus, extractStatus, exOut>>

\* read_cached_file_data: one test of the loop condition and, when it holds,
\* one iteration
CopyStep ==
    /\ pk.pc = "loop"
    /\ LET mmap == priorFile
           mlen == BLen(priorFile)
       IN pk' =
          IF pk.remaining = 0
          THEN [pk EXCEPT !.pc = "ok"]
          ELSE LET l == [pk EXCEPT !.iterations = @ + 1] IN
               IF l.current_zsize_index >= Len(l.zsizes)
               THEN LoopFail(l, "InvalidZSizeIndex")
               ELSE LET zsize == l.zsizes[l.current_zsize_index + 1]
                        compressed_size == IF zsize = 0 THEN l.block_size ELSE zsize
                    IN IF l.current_offset + compressed_size > mlen
                       THEN LoopFail(l, "BlockBounds")
                       ELSE Advance(
                               [l EXCEPT !.result =
                                            Norm(@ \o Slice(mmap, l.current_offset,
                                                            compressed_size)),
                                         !.result_zsizes = Append(@, zsize)],
                               compressed_size, l.block_size)
    /\ UNCHANGED <<dir, manifestDisk, outFile, priorFile, plan, stage, changed,
                   priorKind, ex, packStatus, extractStatus, exOut>>

DecodeNext == ReadStep \/ CopyStep

\* a running loop goes on
DecodeSpec ==
    DecodeInit /\ [][DecodeNext]_vars /\ WF_vars(ReadStep) /\ WF_vars(CopyStep)

LoopEnded(l) == l.pc \in {"ok", "err"}

\* the number of ZSize entries minus the entry's ZSize index, plus one
StatedBound(l) == Len(l.zsizes) - l.entry.zsize_index + 1

\* C29 as stated: both loops end, with a result or an error, after at most
\* (number of ZSize entries - zsize_index + 1) iterations.
BlockLoopsStatedBound ==
    /\ [](ex.iterations <= StatedBound(ex) /\ pk.iterations <= StatedBound(pk))
    /\ <>(LoopEnded(ex) /\ LoopEnded(pk))

\* the ZSize entries from the entry's index on (none when the index lies
\* past the table), plus one
IterationBound(l) == Max(Len(l.zsizes) - l.entry.zsize_index, 0) + 1

\* C29, amended: for every mapped file, entry, ZSize table and block size
\* (0 included, blocks that inflate to fewer bytes than expected included)
\* the block decoding loop of extract and the block copying loop of the
\* cache loader end, with a result or an error, after at most
\* max(number of ZSize entries - zsize_index, 0) + 1 iterations.
BlockLoopsTerminate ==
    /\ [](ex.iterations <= IterationBound(ex) /\ pk.iterations <= IterationBound(pk))
    /\ <>[](LoopEnded(ex) /\ LoopEnded(pk))

\* with block size 0 and two ZSize values 0 both loops have used up the
\* table without a byte of progress and have ended with an error after
\* three iterations
BlockLoopsTerminateWitness ==
    /\ ex.block_size = 0
    /\ ex.zsizes = <<0, 0>>
    /\ ex.entry.zsize_index = 0
    /\ ex.pc = "err" /\ ex.iterations = 3 /\ ex.result = <<>>
    /\ pk.pc = "err" /\ pk.iterations = 3

\* ------------------------------------------------------- the GUI and its packs
\* The frame handlers that start a pack and the worker threads they spawn.
\* pk holds the AppState fields the handlers use, ex the worker threads in
\* the order they were spawned, packStatus the status channel of each
\* worker (the statuses sent and not yet received).
MaxWorkers == 2

ArcFolder == "arc_1_ep_1_1"
\* the files the watcher can report, as path components
GuiFiles == {<<ArcFolder, "a">>, <<"b">>}
\* the files the save dialog can return
DialogOutputs == {<<"out1.psarc">>, <<"out2.psarc">>}
\* the dialog was cancelled
NoOutput == <<>>
\* game_folder.join(format!("{}.psarc", folder_name))
GameOutput(folder_name) == <<"game", folder_name>>

get_arc_folder_from_path(path) ==
    LET arcs == {i \in DOMAIN path : path[i] = ArcFolder}
    IN IF arcs = {} THEN "" ELSE path[CHOOSE i \in arcs : \A j \in arcs : i <= j]

get_modified_arc_folders(modified_files) ==
    {get_arc_folder_from_path(p) : p \in modified_files} \ {""}

AppStateNew ==
    [is_packing |-> FALSE, pack_status_receiver |-> 0, modified_files |-> {},
     packing_mode |-> "Full", show_pack_confirm |-> FALSE,
     pending_pack_folders |-> {}, status_message |-> "Ready"]

GuiInit ==
    /\ pk = AppStateNew
    /\ ex = <<>>
    /\ packStatus = <<>>
    /\ dir = [p \in {} |-> 1]
    /\ plan = "single"
    /\ manifestDisk = NoManifest
    /\ outFile = NoArchive
    /\ priorFile = NoArchive
    /\ stage = "fresh"
    /\ changed = {}
    /\ priorKind = "none"
    /\ extractStatus = <<>>
    /\ exOut = NoFiles

\* show, the status part: every status of the current receiver is taken;
\* a status that is not packing ends the pack, the receiver is dropped and
\* the modified files are cleared
Drain(state, chans) ==
    LET rx == state.pack_status_receiver
        q == IF rx = 0 THEN <<>> ELSE chans[rx]
    IN IF q = <<>> THEN [state |-> state, chans |-> chans]
       ELSE LET last == q[Len(q)]
                done_packing == \E i \in DOMAIN q : ~q[i].active
                s1 == [state EXCEPT
                          !.is_packing = last.active,
                          !.status_message =
                             IF last.error # "" THEN "Error" ELSE "Packed"]
            IN [state |-> IF done_packing
                          THEN [s1 EXCEPT !.pack_status_receiver = 0,
                                          !.modified_files = {}]
                          ELSE s1,
                chans |-> [chans EXCEPT ![rx] = <<>>]]

\* let (tx, rx) = unbounded(); pack_status_receiver = Some(rx); is_packing =
\* true; a thread is spawned that will write output
SpawnPack(state, chans, output) ==
    /\ Len(ex) < MaxWorkers
    /\ pk' = [state EXCEPT !.pack_status_receiver = Len(chans) + 1,
                           !.is_packing = TRUE]
    /\ packStatus' = Append(chans, <<>>)
    /\ ex' = Append(ex, [pc |-> "packing", output |-> output])

NoSpawn(state, chans) ==
    /\ pk' = state
    /\ packStatus' = chans
    /\ ex' = ex

\* the Pack PSARC button of the toolbar
ClickPackPsarc(state, chans, dialog) ==
    IF state.packing_mode = "Incremental"
    THEN IF state.modified_files = {}
         THEN NoSpawn([state EXCEPT !.status_message = "Incremental packing skipped"],
                      chans)
         ELSE LET arc_folders == get_modified_arc_folders(state.modified_files) IN
              IF arc_folders = {}
              THEN NoSpawn([state EXCEPT !.status_message = "No arc folders found"],
                           chans)
              ELSE NoSpawn([state EXCEPT !.pending_pack_folders = arc_folders,
                                         !.show_pack_confirm = TRUE,
                                         !.status_message = "Confirm packing"],
                           chans)
    ELSE IF dialog = NoOutput
         THEN NoSpawn([state EXCEPT !.status_message = "No output file selected"], chans)
         ELSE SpawnPack(state, chans, dialog)

\* File > Pack Folder...
ClickPackFolder(state, chans, dialog) ==
    IF state.packing_mode = "Incremental" /\ state.modified_files = {}
    THEN NoSpawn([state EXCEPT !.status_message = "Incremental packing skipped"], chans)
    ELSE IF dialog = NoOutput
         THEN NoSpawn([state EXCEPT !.status_message = "No output file selected"], chans)
         ELSE SpawnPack(state, chans, dialog)

\* one frame of the top panel: the statuses, then the widgets with at most
\* one click
TopPanelShow(click, dialog) ==
    /\ LET d == Drain(pk, packStatus) IN
       CASE click = "none" -> dialog = NoOutput /\ NoSpawn(d.state, d.chans)
         [] click = "Pack PSARC" -> ClickPackPsarc(d.state, d.chans, dialog)
         [] click = "Pack Folder" -> ClickPackFolder(d.state, d.chans, dialog)
    /\ UNCHANGED <<dir, manifestDisk, outFile, priorFile, plan, stage, changed,
                   priorKind, extractStatus, exOut>>

\* one frame of the confirmation window with a click on Confirm or Cancel
\* (game folder set, FileList.xml present in every pending folder)
PackConfirmShow(button) ==
    /\ pk.show_pack_confirm
    /\ pk.pending_pack_folders # {}
    /\ LET closed == [pk EXCEPT !.show_pack_confirm = FALSE] IN
       IF button = "Confirm"
       THEN \E folder \in pk.pending_pack_folders :
               SpawnPack([closed EXCEPT !.pending_pack_folders = {}], packStatus,
                         GameOutput(folder))
       ELSE NoSpawn(closed, packStatus)
    /\ UNCHANGED <<dir, manifestDisk, outFile, priorFile, plan, stage, changed,
                   priorKind, extractStatus, exOut>>

\* the settings window selects the packing mode
SelectPackingMode(mode) ==
    /\ pk.packing_mode # mode
    /\ pk' = [pk EXCEPT !.packing_mode = mode]
    /\ UNCHANGED <<dir, manifestDisk, outFile, priorFile, plan, stage, changed,
                   priorKind, ex, packStatus, extractStatus, exOut>>

\* the file watcher reports a file whose timestamp changed
FileEvent(p) ==
    /\ p \notin pk.modified_files
    /\ pk' = [pk EXCEPT !.modified_files = @ \cup {p}]
    /\ UNCHANGED <<dir, manifestDisk, outFile, priorFile, plan, stage, changed,
                   priorKind, ex, packStatus, extractStatus, exOut>>

Send(w, status) == packStatus' = [packStatus EXCEPT ![w] = Append(@, status)]

\* a worker reports progress once and goes on
WorkerProgress(w) ==
    /\ w \in DOMAIN ex
    /\ ex[w].pc = "packing"
    /\ ex' = [ex EXCEPT ![w].pc = "compressed"]
    /\ Send(w, Status("Compressing", Progress0, TRUE, ""))
    /\ UNCHANGED <<dir, manifestDisk, outFile, priorFile, plan, stage, changed,
                   priorKind, pk, extractStatus, exOut>>

\* a worker fails before it creates the output and sends the error status
WorkerFail(w) ==
    /\ w \in DOMAIN ex
    /\ ex[w].pc \in {"packing", "compressed"}
    /\ ex' = [ex EXCEPT ![w].pc = "ended"]
    /\ Send(w, Status("Error", Progress0, FALSE, "Io"))
    /\ UNCHANGED <<dir, manifestDisk, outFile, priorFile, plan, stage, changed,
                   priorKind, pk, extractStatus, exOut>>

\* a worker creates (truncates) its output file and starts to write it
WorkerCreateOutput(w) ==
    /\ w \in DOMAIN ex
    /\ ex[w].pc = "compressed"
    /\ ex' = [ex EXCEPT ![w].pc = "writing"]
    /\ UNCHANGED <<dir, manifestDisk, outFile, priorFile, plan, stage, changed,
                   priorKind, pk, packStatus, extractStatus, exOut>>

\* a worker has written and flushed its output and sends the final status
WorkerDone(w) ==
    /\ w \in DOMAIN ex
    /\ ex[w].pc = "writing"
    /\ ex' = [ex EXCEPT ![w].pc = "ended"]
    /\ Send(w, Status("Done", Progress1, FALSE, ""))
    /\ UNCHANGED <<dir, manifestDisk, outFile, priorFile, plan, stage, changed,
                   priorKind, pk, extractStatus, exOut>>

GuiNext ==
    \/ \E click \in {"none", "Pack PSARC", "Pack Folder"},
          dialog \in DialogOutputs \cup {NoOutput} : TopPanelShow(click, dialog)
    \/ \E button \in {"Confirm", "Cancel"} : PackConfirmShow(button)
    \/ \E mode \in {"Full", "Incremental"} : SelectPackingMode(mode)
    \/ \E p \in GuiFiles : FileEvent(p)
    \/ \E w \in 1..MaxWorkers : WorkerProgress(w)
    \/ \E w \in 1..MaxWorkers : WorkerFail(w)
    \/ \E w \in 1..MaxWorkers : WorkerCreateOutput(w)
    \/ \E w \in 1..MaxWorkers : WorkerDone(w)

GuiSpec == GuiInit /\ [][GuiNext]_vars

\* a pack is running for the GUI: is_packing, a receiver, and no final
\* status waiting in its channel
GuiPackRunning ==
    /\ pk.is_packing
    /\ pk.pack_status_receiver # 0
    /\ \A i \in DOMAIN packStatus[pk.pack_status_receiver] :
          packStatus[pk.pack_status_receiver][i].active

\* the final statuses the next frame will take
PendingTerminals ==
    IF pk.pack_status_receiver = 0 THEN {}
    ELSE {packStatus[pk.pack_status_receiver][i] :
             i \in Terminals(packStatus[pk.pack_status_receiver])}

\* C30: while a pack is running no GUI action starts a second worker or
\* replaces the receiver of the running one; two workers never write the
\* same output file at the same time; the modified files are cleared only
\* after a pack that finished without error.
OnePackAtATime ==
    /\ [][GuiPackRunning =>
            /\ Len(ex') = Len(ex)
            /\ pk'.pack_status_receiver = pk.pack_status_receiver]_vars
    /\ [](\A v, w \in DOMAIN ex :
             (ex[v].pc = "writing" /\ ex[w].pc = "writing"
                /\ ex[v].output = ex[w].output) => v = w)
    /\ [][(pk.modified_files # {} /\ pk'.modified_files = {}) =>
             /\ PendingTerminals # {}
             /\ \A s \in PendingTerminals : s.error = ""]_vars

====
